---- MODULE Spec2Model ----
(***************************************************************************)
(* colormel: the capture-to-render pipeline thread (Visualizer / Pipeline), *)
(* the UI thread's handlers on the shared configuration (App), and the GPU  *)
(* queue the pipeline submits to.  Lengths are in model units: a window of  *)
(* width 2 stands for any window wider than one of width 1.                 *)
(***************************************************************************)
EXTENDS Integers, Sequences, FiniteSets, TLC

\* ---------------------------------------------------------------- bounds
\* Frames with AccumulatedFrames >= 1 the desktop delivers in one run.
MaxFrames == 2
\* UI events (button, slider, drag, move/resize) delivered in one run.
MaxUiEvents == 1
\* Calls of Visualizer::terminate (explicit calls and the one made by drop).
MaxTerminate == 2
\* The highest value of a colour channel (255 in the program).
MaxLevel == 1
\* The desktop's size in pixels.
ScreenW == 17
ScreenH == 2
\* The slots of the timestamp query heap.
MaxStamps == 3
\* The timestamp() calls made on one renderer beyond the heap's size.
MaxExtraCalls == 2
\* The longest side of a capture rectangle the dispatch grids are followed for.
MaxSide == 17

VARIABLES
    config,         \* Arc<Mutex<Config>>: the shared value
    lockHolder,     \* who holds the Mutex: "none", "ui", "pipe"
    stable,         \* the shared value as it stood when no UI update was in progress
    keep_running,   \* Visualizer.keep_running
    join_handle,    \* Visualizer.join_handle is Some
    joins,          \* JoinHandle::join calls made so far
    uiPc,           \* UI thread: "idle", "pos_changed" (inside on_pos_changed), "joining"
    uiArg,          \* the RECT on_pos_changed is storing
    uiEvents,       \* UI events delivered so far
    terminateCalls, \* terminate() calls made so far
    pipePc,         \* pipeline thread: its position in the loop of Visualizer::new
    snapshot,       \* the thread's `config` local: the clone of this iteration
    err,            \* the error the thread printed before leaving the loop
    dupl,           \* Duplication: the OS frame is acquired, self.resource is Some
    lastDup,        \* the outcomes of the last duplicate() call
    framesLeft,     \* frames the desktop still delivers
    swap,           \* SwapChain: size field, real size of buffers and depth, their
                    \* generation, the last size requested, the current back buffer
                    \* index and the resource state of each back buffer
    cmdState,       \* the command list: "closed" or "open"
    fence_value,    \* Fence.fence_value
    completedValue, \* ID3D12Fence::GetCompletedValue
    gpuQueue,       \* the command queue: submitted work the GPU has not reached
    frameNo,        \* renderers created so far
    log,            \* the calls made by the current loop iteration, in order
    cursor,         \* Renderer.shader_visible_descriptors: slots handed out so far
    cmds,           \* the commands recorded into the command list since its Reset
    target,         \* Renderer.render_target: index of the back buffer it draws to
    viewports,      \* Renderer.viewports: the full and the adjusted viewport
    closed,         \* Renderer::close calls that returned Ok
    submitted,      \* command lists handed to ExecuteCommandLists
    gpuPc,          \* commands of the submitted list the GPU has executed
    mem,            \* contents of the aggregation buffers
    resState,       \* resource state of the aggregation buffers on the GPU timeline
    frame,          \* the desktop image the capture view shows
    labels,         \* TimestampQueryIter.labels of the renderer, then of execute
    stampCalls,     \* Renderer::timestamp calls made on the renderer
    queries,        \* the timestamp query heap: the tick each slot holds
    staging,        \* TimestampQueryPool.staging: the readback buffer
    reports,        \* the lines dump has printed in this iteration
    pool            \* the non-shader-visible heap: its iterator and the views written

vars == <<config, lockHolder, stable, keep_running, join_handle, joins, uiPc, uiArg,
          uiEvents, terminateCalls, pipePc, snapshot, err, dupl, lastDup, framesLeft,
          swap, cmdState, fence_value, completedValue, gpuQueue, frameNo, log,
          cursor, cmds, target, viewports, closed, submitted, gpuPc, mem, resState, frame,
          labels, stampCalls, queries, staging, reports, pool>>

uiVars == <<uiPc, uiArg, uiEvents>>
termVars == <<keep_running, join_handle, joins, terminateCalls>>
gpuVars == <<fence_value, completedValue, gpuQueue>>
frameVars == <<swap, cmdState, frameNo>>
duplVars == <<dupl, lastDup, framesLeft>>
renderVars == <<cursor, cmds, target, viewports, closed, submitted>>
execVars == <<gpuPc, mem, resState, frame, pool>>
stampVars == <<labels, stampCalls, queries, staging, reports>>

\* ---------------------------------------------------------------- config
HISTOGRAM_MODE_RGB == 0
HISTOGRAM_MODE_RGBL == 1
HISTOGRAM_MODE_LUMA == 2
HISTOGRAM_MODE_HUE == 3
COLORCLOUD_MODE_RGB == 0
COLORCLOUD_MODE_HSL == 1

\* RECT::new(x, y, width, height)
RectNew(x, y, width, height) ==
    [left |-> x, top |-> y, right |-> x + width, bottom |-> y + height]

\* Rect::width / Rect::height
RectWidth(r) == r.right - r.left
RectHeight(r) == r.bottom - r.top

\* Config::load, the branch taken when no settings file can be read.
DefaultConfig ==
    [enable_filter |-> FALSE, enable_histogram |-> FALSE,
     histogram_mode |-> HISTOGRAM_MODE_RGB, histogram_scale |-> 50,
     enable_color_cloud |-> FALSE, color_cloud_mode |-> COLORCLOUD_MODE_RGB,
     show_grid |-> FALSE, bg_opacity |-> 100,
     window_rect |-> RectNew(0, 0, 2, 1), rotation |-> <<>>]

\* Config::load, the branch that reads a settings file: here one with every
\* pass enabled.
LoadedConfig ==
    [DefaultConfig EXCEPT !.enable_filter = TRUE, !.enable_histogram = TRUE,
                          !.enable_color_cloud = TRUE, !.show_grid = TRUE,
                          !.window_rect = RectNew(0, 0, 1, 1)]

InitConfigs == {DefaultConfig, LoadedConfig}

\* The thread's `config` local outside an iteration.
NoConfig == [valid |-> FALSE]

\* ---------------------------------------------------------------- UI inputs
ButtonIds == {"ID_ENABLE_FILTER", "ID_ENABLE_HISTOGRAM", "ID_HISTOGRAM_RGB",
              "ID_HISTOGRAM_RGBL", "ID_HISTOGRAM_LUMA", "ID_HISTOGRAM_HUE",
              "ID_ENABLE_COLORCLOUD", "ID_COLORCLOUD_RGB", "ID_COLORCLOUD_HSL",
              "ID_COLORCLOUD_GRID"}
SliderIds == {"ID_HISTOGRAM_SCALE", "ID_COLORCLOUD_BG"}
SliderVals == {0}
Drags == {<<1, 0>>}
PosRects == {RectNew(1, 0, w, h) : w \in {1, 2}, h \in {1, 2}}

\* The window size when the swap chain is created (Viewer::create makes the
\* window square; Context::new reads hwnd.size()).
HwndSize == <<2, 2>>

\* App::on_button: the field the button id writes.
ButtonWrite(c, id, checked) ==
    CASE id = "ID_ENABLE_FILTER" -> [c EXCEPT !.enable_filter = checked]
      [] id = "ID_ENABLE_HISTOGRAM" -> [c EXCEPT !.enable_histogram = checked]
      [] id = "ID_HISTOGRAM_RGB" -> [c EXCEPT !.histogram_mode = HISTOGRAM_MODE_RGB]
      [] id = "ID_HISTOGRAM_RGBL" -> [c EXCEPT !.histogram_mode = HISTOGRAM_MODE_RGBL]
      [] id = "ID_HISTOGRAM_LUMA" -> [c EXCEPT !.histogram_mode = HISTOGRAM_MODE_LUMA]
      [] id = "ID_HISTOGRAM_HUE" -> [c EXCEPT !.histogram_mode = HISTOGRAM_MODE_HUE]
      [] id = "ID_ENABLE_COLORCLOUD" -> [c EXCEPT !.enable_color_cloud = checked]
      [] id = "ID_COLORCLOUD_RGB" -> [c EXCEPT !.color_cloud_mode = COLORCLOUD_MODE_RGB]
      [] id = "ID_COLORCLOUD_HSL" -> [c EXCEPT !.color_cloud_mode = COLORCLOUD_MODE_HSL]
      [] id = "ID_COLORCLOUD_GRID" -> [c EXCEPT !.show_grid = checked]
      [] OTHER -> c

\* App::on_slider: val is the percentage; the stored value is val / 100.
SliderWrite(c, id, val) ==
    CASE id = "ID_HISTOGRAM_SCALE" -> [c EXCEPT !.histogram_scale = val]
      [] id = "ID_COLORCLOUD_BG" -> [c EXCEPT !.bg_opacity = val]
      [] OTHER -> c

\* App::on_drag: the rotation is multiplied by the drag's rotation; the
\* product is kept as the list of its factors.
DragWrite(c, d) == [c EXCEPT !.rotation = Append(c.rotation, d)]

\* ---------------------------------------------------------------- swap chain
\* SwapChain::BUFFER_COUNT
BUFFER_COUNT == 2

\* SwapChain::new: buffers and depth of the given size, size field set; the
\* buffers of a swap chain start presentable and the first one is current.
SwapChainNew(width, height) ==
    [size |-> <<width, height>>, buffers |-> <<width, height>>,
     depth |-> <<width, height>>, requested |-> <<width, height>>,
     generation |-> 0, index |-> 0,
     states |-> [i \in 0..(BUFFER_COUNT - 1) |-> "present"]]

\* Resource::transition_barrier recorded on a resource whose state is `state`:
\* a barrier whose `before` is not the resource's state is invalid.
TransitionBarrier(state, before, after) ==
    IF state = before THEN after ELSE "invalid"

\* ---------------------------------------------------------------- commands
\* One recorded command: the call, the resources it names, the states of a
\* transition, the descriptors it copies into the shader-visible heap and
\* the thread groups of a dispatch.
\* The projection constant of a draw that has none.
NoProjection == [rotation |-> <<>>, num |-> 0, den |-> 0]
NoParams == [left |-> 0, top |-> 0, right |-> 0, bottom |-> 0, mode |-> 0, ch |-> 0]
Cmd(op, res, n) ==
    [op |-> op, res |-> res, before |-> "", after |-> "", n |-> n, x |-> 0, y |-> 0,
     params |-> NoParams, proj |-> NoProjection, max_count |-> 0,
     inv_max_count |-> [finite |-> TRUE, num |-> 0, den |-> 1]]
Barrier(res, before, after) ==
    [Cmd("barrier", res, 0) EXCEPT !.before = before, !.after = after]
\* set_compute_constants(&params) followed by dispatch(x, y, 1)
Dispatch(pass, res, x, y, params) ==
    [Cmd(pass, res, 0) EXCEPT !.x = x, !.y = y, !.params = params]

BackName(i) == IF i = 0 THEN "back0" ELSE "back1"

\* ---------------------------------------------------------------- aggregation buffers
\* Histogram.buffers[0..3] and ColorCloud.counter.
HistBuffers == {"hist0", "hist1", "hist2", "hist3"}
AggBuffers == HistBuffers \cup {"cloud"}

\* The values one colour channel takes: 0..MaxLevel stands for 0..255, so a
\* histogram buffer has MaxLevel + 1 bins (NUM_ELEMS) and the counter one
\* cell for every triple of levels.
Levels == 0..MaxLevel
Colors == Levels \X Levels \X Levels
Cells(res) == IF res = "cloud" THEN Colors ELSE Levels

\* RwBuffer::new creates the buffers in D3D12_RESOURCE_STATE_COMMON; the last
\* barrier of a pass that ran leaves its buffers in
\* D3D12_RESOURCE_STATE_NON_PIXEL_SHADER_RESOURCE ("read").
ZeroMem == [res \in AggBuffers |-> [cell \in Cells(res) |-> 0]]
InitResState == [res \in AggBuffers |-> "common"]
UsedResState == [res \in AggBuffers |-> "read"]

\* Renderer::new: the two viewports for a target of width by height, the full
\* one and the square one of side `width.max(height)`.  x2 and y2 are twice
\* TopLeftX and TopLeftY, which are halves: (width - adjusted) / 2.0.
Max(a, b) == IF a >= b THEN a ELSE b
Viewports(width, height) ==
    LET adjusted == Max(width, height) IN
    [full |-> [x2 |-> 0, y2 |-> 0, Width |-> width, Height |-> height],
     adjust |-> [x2 |-> width - adjusted, y2 |-> height - adjusted,
                 Width |-> adjusted, Height |-> adjusted]]

\* TimestampQueryPool::new: a query heap of `count` timestamp slots and a
\* readback buffer of as many 64-bit values (64 in the program).
QueryCount == MaxStamps
Slots == 0..(QueryCount - 1)
ZeroTicks == [i \in Slots |-> 0]

\* The desktop image: colour c in the even columns of the screen and colour
\* d in the odd ones (one colour everywhere when c = d); outside the screen a
\* texture load answers zero.
ScreenPixels == (0..(ScreenW - 1)) \X (0..(ScreenH - 1))
SolidFrame(c) == [c |-> c, d |-> c]
SplitFrame(c, d) == [c |-> c, d |-> d]
PixelAt(image, px) ==
    IF px \notin ScreenPixels THEN <<0, 0, 0>>
    ELSE IF px[1] % 2 = 0 THEN image.c ELSE image.d

\* The locals of duplicate() outside a call.
NoDup == [release |-> "none", hr |-> "none", frames |-> 0, wrap |-> "none",
          result |-> "none"]

\* ---------------------------------------------------------------- persistent views
\* DescriptorHeap::new(&device, 16): the non-shader-visible heap's capacity.
NonShaderVisibleDescriptors == 16

\* RwBuffer::new takes three descriptors for a buffer: srv, uav and raw_uav.
RwBufferViewsWithCounter(res) ==
    <<[res |-> res, view |-> "srv"], [res |-> res, view |-> "uav"],
      [res |-> res, view |-> "raw_uav"], [res |-> res, view |-> "counter"]>>
RwBufferViews(res) ==
    <<[res |-> res, view |-> "srv"], [res |-> res, view |-> "uav"],
      [res |-> res, view |-> "raw_uav"]>>

\* Pipeline::new builds the components in this order, all from one Initializer.
Stages == <<"duplication", "colorcloud", "filter", "histogram", "grids">>

\* The views each constructor asks the Initializer for: Duplication::new one
\* for the capture, ColorCloud::new those of its counter, Histogram::new those
\* of its four buffers; Filter::new and Grids::new none.
StageViews(stage) ==
    CASE stage = "duplication" -> <<[res |-> "capture", view |-> "srv"]>>
      [] stage = "colorcloud" -> RwBufferViews("cloud")
      [] stage = "histogram" ->
            RwBufferViews("hist0") \o RwBufferViews("hist1")
                \o RwBufferViews("hist2") \o RwBufferViews("hist3")
      [] OTHER -> <<>>

\* ctx.create_initializer(): non_shader_visible_srv_heap.iter(), at slot 0.
EmptyPool == [stage |-> 1, cur |-> 0, views |-> <<>>, panicked |-> FALSE]

\* DescriptorIter::next: the slot at cur while cur is before end, else None.
DescriptorIterNext(p) ==
    IF p.cur < NonShaderVisibleDescriptors
    THEN [some |-> TRUE, slot |-> p.cur]
    ELSE [some |-> FALSE, slot |-> p.cur]

\* Initializer::next_descriptor for each view of a constructor in turn:
\* expect("descriptor size limit") panics on None, and nothing follows it.
RECURSIVE Allocate(_, _)
Allocate(p, views) ==
    IF views = <<>> \/ p.panicked THEN p
    ELSE LET d == DescriptorIterNext(p) IN
         IF d.some
         THEN Allocate([p EXCEPT !.cur = p.cur + 1,
                                 !.views = Append(p.views,
                                     [res |-> Head(views).res, view |-> Head(views).view,
                                      slot |-> d.slot])],
                       Tail(views))
         ELSE [p EXCEPT !.panicked = TRUE]

\* One constructor of Pipeline::new that returned Ok.
StageBuilt(p, stage) == [Allocate(p, StageViews(stage)) EXCEPT !.stage = p.stage + 1]

\* The heap once Pipeline::new has returned: what every frame runs on.
RECURSIVE BuildFrom(_)
BuildFrom(p) ==
    IF p.panicked \/ p.stage > Len(Stages) THEN p
    ELSE BuildFrom(StageBuilt(p, Stages[p.stage]))
BuiltPool == BuildFrom(EmptyPool)

\* ---------------------------------------------------------------- Init
Init ==
    /\ config \in InitConfigs
    /\ stable = config
    /\ lockHolder = "none"
    /\ keep_running = TRUE
    /\ join_handle = TRUE
    /\ joins = 0
    /\ uiPc = "idle"
    /\ uiArg = RectNew(0, 0, 0, 0)
    /\ uiEvents = 0
    /\ terminateCalls = 0
    /\ pipePc = "loop"
    /\ snapshot = NoConfig
    /\ err = "none"
    /\ dupl = [acquired |-> FALSE, resource |-> FALSE]
    /\ lastDup = NoDup
    /\ framesLeft = MaxFrames
    /\ swap = SwapChainNew(HwndSize[1], HwndSize[2])
    /\ cmdState = "closed"
    /\ fence_value = 1
    /\ completedValue = 0
    /\ gpuQueue = <<>>
    /\ frameNo = 0
    /\ log = <<>>
    /\ cursor = 0
    /\ cmds = <<>>
    /\ target = 0
    /\ viewports = Viewports(0, 0)
    /\ closed = 0
    /\ submitted = 0
    /\ gpuPc = 0
    /\ mem = ZeroMem
    /\ resState = InitResState
    /\ frame = SolidFrame(<<0, 0, 0>>)
    /\ labels = <<>> /\ stampCalls = 0
    /\ queries = ZeroTicks /\ staging = ZeroTicks /\ reports = <<>>
    /\ pool = BuiltPool


\* ---------------------------------------------------------------- UI thread
\* Mutex::lock succeeds at once only when nobody holds the lock.
LockIgnored == TRUE
LockAvailable == lockHolder = "none"

\* App::on_button: lock, write one field, unlock.
UiButton ==
    /\ uiPc = "idle" /\ uiEvents < MaxUiEvents /\ LockAvailable
    /\ \E id \in ButtonIds, checked \in BOOLEAN :
          config' = ButtonWrite(config, id, checked)
    /\ stable' = config'
    /\ uiEvents' = uiEvents + 1
    /\ UNCHANGED <<renderVars, stampVars, execVars, lockHolder, uiPc, uiArg, termVars, pipePc,
                   snapshot, err, duplVars, frameVars, gpuVars, log>>

\* App::on_slider: lock, write one field, unlock.
UiSlider ==
    /\ uiPc = "idle" /\ uiEvents < MaxUiEvents /\ LockAvailable
    /\ \E id \in SliderIds, val \in SliderVals :
          config' = SliderWrite(config, id, val)
    /\ stable' = config'
    /\ uiEvents' = uiEvents + 1
    /\ UNCHANGED <<renderVars, stampVars, execVars, lockHolder, uiPc, uiArg, termVars, pipePc,
                   snapshot, err, duplVars, frameVars, gpuVars, log>>

\* App::on_drag: lock, multiply the rotation, unlock.
UiDrag ==
    /\ uiPc = "idle" /\ uiEvents < MaxUiEvents /\ LockAvailable
    /\ \E d \in Drags : config' = DragWrite(config, d)
    /\ stable' = config'
    /\ uiEvents' = uiEvents + 1
    /\ UNCHANGED <<renderVars, stampVars, execVars, lockHolder, uiPc, uiArg, termVars, pipePc,
                   snapshot, err, duplVars, frameVars, gpuVars, log>>

\* App::on_pos_changed, first half: take the lock and store the first two
\* words of the RECT (the store of a 16-byte struct is not one memory write).
UiPosChangedBegin ==
    /\ uiPc = "idle" /\ uiEvents < MaxUiEvents /\ LockAvailable
    /\ \E r \in PosRects :
          /\ uiArg' = r
          /\ config' = [config EXCEPT !.window_rect.left = r.left,
                                      !.window_rect.top = r.top]
    /\ lockHolder' = "ui"
    /\ uiPc' = "pos_changed"
    /\ uiEvents' = uiEvents + 1
    /\ UNCHANGED <<renderVars, stampVars, execVars, stable, termVars, pipePc, snapshot, err, duplVars,
                   frameVars, gpuVars, log>>

\* App::on_pos_changed, second half: store the rest of the RECT and unlock.
UiPosChangedEnd ==
    /\ uiPc = "pos_changed"
    /\ config' = [config EXCEPT !.window_rect.right = uiArg.right,
                                !.window_rect.bottom = uiArg.bottom]
    /\ stable' = config'
    /\ lockHolder' = "none"
    /\ uiPc' = "idle"
    /\ UNCHANGED <<renderVars, stampVars, execVars, uiArg, uiEvents, termVars, pipePc, snapshot, err,
                   duplVars, frameVars, gpuVars, log>>

\* Option::take leaves None behind.
TakeHandleKeeps(h) == h
TakeHandle(h) == FALSE

\* Visualizer::terminate up to the join: clear the flag, take the handle and,
\* when there was one, start joining (`joining` is where the caller waits).
TerminateBody(joining, returned) ==
    /\ terminateCalls < MaxTerminate
    /\ terminateCalls' = terminateCalls + 1
    /\ keep_running' = FALSE
    /\ join_handle' = TakeHandle(join_handle)
    /\ IF join_handle
          THEN /\ joins' = joins + 1
               /\ uiPc' = joining
          ELSE /\ joins' = joins
               /\ uiPc' = returned
    /\ UNCHANGED <<renderVars, stampVars, execVars, config, lockHolder, stable, uiArg, uiEvents,
                   pipePc, snapshot, err, duplVars, frameVars, gpuVars, log>>

\* An explicit call of the public Visualizer::terminate.
Terminate ==
    /\ uiPc = "idle"
    /\ TerminateBody("joining", "idle")

\* Drop for Visualizer: terminate(), after which the object is gone.
Drop ==
    /\ uiPc = "idle"
    /\ TerminateBody("drop_joining", "dropped")

\* JoinHandle::join returns once the thread has left its closure.
JoinReturn ==
    /\ uiPc \in {"joining", "drop_joining"}
    /\ pipePc = "exited"
    /\ uiPc' = IF uiPc = "joining" THEN "idle" ELSE "dropped"
    /\ UNCHANGED <<renderVars, stampVars, execVars, config, lockHolder, stable, uiArg, uiEvents,
                   termVars, pipePc, snapshot, err, duplVars, frameVars, gpuVars, log>>


\* ---------------------------------------------------------------- pipeline thread
\* `if let Err(e) = pipeline.process(config) { println!(..); break; }`, and the
\* `?` of every fallible call on the way up: the thread leaves the loop.
OnErrorContinue == "loop"
OnError == "exited"

Fail(e) ==
    /\ pipePc' = OnError
    /\ err' = e

\* `while keep_running2.load(Ordering::Relaxed)`
KeepRunningIgnored == TRUE
KeepRunningObserved == keep_running

\* The top of the loop: read the flag once; leave when it is cleared.
LoopCheck ==
    /\ pipePc = "loop"
    /\ pipePc' = IF KeepRunningObserved THEN "lock" ELSE "exited"
    /\ log' = <<>>
    /\ lastDup' = NoDup
    /\ UNCHANGED <<renderVars, stampVars, execVars, config, lockHolder, stable, uiVars, termVars,
                   snapshot, err, dupl, framesLeft, frameVars, gpuVars>>

\* `config.lock()`: blocks until the Mutex is free.
LockConfig ==
    /\ pipePc = "lock"
    /\ LockAvailable
    /\ lockHolder' = "pipe"
    /\ pipePc' = "clone"
    /\ log' = Append(log, "lock")
    /\ UNCHANGED <<renderVars, stampVars, execVars, config, stable, uiVars, termVars, snapshot, err,
                   duplVars, frameVars, gpuVars>>

\* `config.to_owned()` under the guard; the guard is dropped at the end of the
\* `let` statement, before pipeline.process is called.
CloneConfigKeepsLock ==
    /\ pipePc = "clone"
    /\ snapshot' = config
    /\ pipePc' = "duplicate"
    /\ log' = Append(log, "clone")
    /\ UNCHANGED <<renderVars, stampVars, execVars, config, lockHolder, stable, uiVars, termVars, err,
                   duplVars, frameVars, gpuVars>>

CloneConfigTakes ==
    /\ pipePc = "clone"
    /\ snapshot' = config
    /\ config' = DefaultConfig
    /\ lockHolder' = "none"
    /\ pipePc' = "duplicate"
    /\ log' = Append(log, "clone")
    /\ UNCHANGED <<renderVars, stampVars, execVars, stable, uiVars, termVars, err, duplVars, frameVars,
                   gpuVars>>

CloneConfig ==
    /\ pipePc = "clone"
    /\ snapshot' = config
    /\ lockHolder' = "none"
    /\ pipePc' = "duplicate"
    /\ log' = Append(log, "clone")
    /\ UNCHANGED <<renderVars, stampVars, execVars, config, stable, uiVars, termVars, err, duplVars,
                   frameVars, gpuVars>>

\* ---------------------------------------------------------------- Duplication::duplicate
\* IDXGIOutputDuplication::ReleaseFrame: with no frame acquired it answers
\* DXGI_ERROR_INVALID_CALL; any call may fail otherwise (access lost, ...).
ReleaseOutcomes(acquired) ==
    IF acquired THEN {"ok", "error"} ELSE {"invalid_call", "error"}

\* `Err(e) if e.code() != DXGI_ERROR_INVALID_CALL => bail!(e)`
ReleaseIsFatalUnlessOk(rel) == rel # "ok"
ReleaseIsFatal(rel) == rel \notin {"ok", "invalid_call"}

\* duplicate(), first part: drop the wrapped resource, release the frame and
\* enter AcquireNextFrame(1000, ..), where the thread waits.
DuplicateBegin ==
    /\ pipePc = "duplicate"
    /\ log' = Append(log, "duplicate")
    /\ \E rel \in ReleaseOutcomes(dupl.acquired) :
          /\ lastDup' = [release |-> rel, hr |-> "none", frames |-> 0, wrap |-> "none",
                         result |-> IF ReleaseIsFatal(rel) THEN "err" ELSE "none"]
          /\ dupl' = [acquired |-> IF rel = "ok" THEN FALSE ELSE dupl.acquired,
                      resource |-> FALSE]
          /\ IF ReleaseIsFatal(rel)
                THEN Fail("ReleaseFrame")
                ELSE pipePc' = "acquire" /\ err' = err
    /\ UNCHANGED <<renderVars, stampVars, execVars, config, lockHolder, stable, uiVars, termVars,
                   snapshot, framesLeft, frameVars, gpuVars>>

\* The `match hr` of duplicate(): "some" is Ok(Some(srv)), "none" is Ok(None),
\* "err" is Err.  wrap is the outcome of cast()? and Resource::from_dxgi(..)?.
DuplicateResultTimeoutFatal(hr, frames, wrap) ==
    IF hr = "ok" /\ frames = 0 THEN "none"
    ELSE IF hr = "ok" /\ wrap = "ok" THEN "some"
    ELSE "err"
DuplicateResult(hr, frames, wrap) ==
    IF hr = "ok"
       THEN IF frames = 0 THEN "none"
            ELSE IF wrap = "ok" THEN "some" ELSE "err"
    ELSE IF hr = "timeout" THEN "none"
    ELSE "err"

\* What AcquireNextFrame and the wrapping can answer: a frame count >= 1 only
\* while the desktop still delivers frames, a wrap outcome only for a frame.
AcquireOutcomes ==
    {[hr |-> "ok", frames |-> 0, wrap |-> "none"],
     [hr |-> "timeout", frames |-> 0, wrap |-> "none"],
     [hr |-> "error", frames |-> 0, wrap |-> "none"]}
    \cup (IF framesLeft > 0
             THEN {[hr |-> "ok", frames |-> 1, wrap |-> "ok"],
                   [hr |-> "ok", frames |-> 1, wrap |-> "error"]}
             ELSE {})

\* Pipeline::process after duplicate(): a view goes on to the renderer, no
\* frame goes to the sleep, an error leaves through `?`.
AfterDuplicateChecksFlag(result) ==
    IF ~keep_running THEN "exited"
    ELSE IF result = "some" THEN "create_renderer" ELSE "sleep"
AfterDuplicate(result) ==
    IF result = "some" THEN "create_renderer" ELSE "sleep"

\* duplicate(), second part: AcquireNextFrame returns (its wait is bounded).
AcquireReturn ==
    /\ pipePc = "acquire"
    /\ \E o \in AcquireOutcomes :
          LET result == DuplicateResult(o.hr, o.frames, o.wrap) IN
          /\ lastDup' = [lastDup EXCEPT !.hr = o.hr, !.frames = o.frames,
                                        !.wrap = o.wrap, !.result = result]
          /\ dupl' = [acquired |-> IF o.hr = "ok" THEN TRUE ELSE dupl.acquired,
                      resource |-> result = "some"]
          /\ framesLeft' = IF o.frames > 0 THEN framesLeft - 1 ELSE framesLeft
          /\ IF result = "err"
                THEN Fail("duplicate")
                ELSE pipePc' = AfterDuplicate(result) /\ err' = err
    /\ UNCHANGED <<renderVars, stampVars, execVars, config, lockHolder, stable, uiVars, termVars,
                   snapshot, frameVars, gpuVars, log>>

\* `std::thread::sleep(Duration::from_millis(10)); return Ok(());`
SleepFallsThrough ==
    /\ pipePc = "sleep"
    /\ log' = Append(log, "sleep")
    /\ pipePc' = "create_renderer"
    /\ UNCHANGED <<renderVars, stampVars, execVars, config, lockHolder, stable, uiVars, termVars,
                   snapshot, err, duplVars, frameVars, gpuVars>>

Sleep ==
    /\ pipePc = "sleep"
    /\ log' = Append(log, "sleep")
    /\ pipePc' = "loop"
    /\ snapshot' = NoConfig
    /\ UNCHANGED <<renderVars, stampVars, execVars, config, lockHolder, stable, uiVars, termVars, err,
                   duplVars, frameVars, gpuVars>>


\* ---------------------------------------------------------------- Context::create_renderer
\* SwapChain::resize: nothing when (width, height) equals the size field;
\* otherwise new buffers and a new depth target (the size field is not written).
SwapResize(sw, width, height) ==
    IF <<width, height>> = sw.size
       THEN [sw EXCEPT !.requested = <<width, height>>]
       ELSE [sw EXCEPT !.buffers = <<width, height>>, !.depth = <<width, height>>,
                       !.requested = <<width, height>>, !.generation = @ + 1,
                       !.index = 0,
                       !.states = [i \in 0..(BUFFER_COUNT - 1) |-> "present"]]

\* Renderer::new: the commands it records on the render target of index i.
RendererNew(i) ==
    <<Barrier({BackName(i)}, "present", "render_target"),
      Cmd("clear_rtv", {BackName(i)}, 0), Cmd("clear_dsv", {"depth"}, 0)>>

\* The states the barriers of a list of commands leave the back buffers in.
RECURSIVE RecordBarriers(_, _)
RecordBarriers(states, cs) ==
    IF cs = <<>> THEN states
    ELSE LET c == Head(cs)
             next == IF c.op = "barrier"
                        THEN [i \in DOMAIN states |->
                                 IF BackName(i) \in c.res
                                    THEN TransitionBarrier(states[i], c.before, c.after)
                                    ELSE states[i]]
                        ELSE states
         IN RecordBarriers(next, Tail(cs))

\* What create_renderer can meet: ResizeBuffers and the buffer creation fail
\* only when a resize is attempted; the allocator / list Reset may always fail.
CreateOutcomes(sw, width, height) ==
    {"ok", "reset_err"} \cup
    (IF <<width, height>> = sw.size THEN {} ELSE {"resize_err"})

\* Context::create_renderer: resize, command_list() (Reset of the allocator
\* and of the list), render_target(), Renderer::new.
CreateRenderer ==
    /\ pipePc = "create_renderer"
    /\ LET width == RectWidth(snapshot.window_rect)
           height == RectHeight(snapshot.window_rect)
       IN \E o \in CreateOutcomes(swap, width, height) :
             CASE o = "resize_err" ->
                    /\ log' = Append(log, "resize")
                    /\ Fail("resize")
                    /\ UNCHANGED <<swap, cmdState, frameNo, cursor, cmds, target, viewports, labels,
                                   stampCalls>>
               [] o = "reset_err" ->
                    /\ log' = log \o <<"resize", "command_list">>
                    /\ swap' = SwapResize(swap, width, height)
                    /\ Fail("command_list")
                    /\ UNCHANGED <<cmdState, frameNo, cursor, cmds, target, viewports, labels,
                                   stampCalls>>
               [] OTHER ->
                    LET resized == SwapResize(swap, width, height) IN
                    /\ log' = log \o <<"resize", "command_list", "renderer_new">>
                    /\ swap' = [resized EXCEPT !.states =
                                    RecordBarriers(@, RendererNew(resized.index))]
                    /\ target' = resized.index
                    /\ viewports' = Viewports(resized.buffers[1], resized.buffers[2])
                    /\ cmds' = RendererNew(resized.index)
                    /\ cursor' = 0
                    /\ cmdState' = "open"
                    /\ frameNo' = frameNo + 1
                    /\ pipePc' = "set_shared_srv"
                    /\ err' = err
                    /\ labels' = <<>>
                    /\ stampCalls' = 0
    /\ UNCHANGED <<closed, submitted, queries, staging, reports, execVars, config, lockHolder, stable, uiVars,
                   termVars, snapshot, duplVars, gpuVars>>

\* ---------------------------------------------------------------- Pipeline::process, the passes
\* The statements of process() after create_renderer, in program order.
AfterStepGridsFirst(step) ==
    CASE step = "set_shared_srv" -> "grids"
      [] step = "grids" -> "filter"
      [] step = "filter" -> "colorcloud"
      [] step = "colorcloud" -> "histogram"
      [] OTHER -> "execute"
AfterStep(step) ==
    CASE step = "set_shared_srv" -> "filter"
      [] step = "filter" -> "colorcloud"
      [] step = "colorcloud" -> "grids"
      [] step = "grids" -> "histogram"
      [] OTHER -> "execute"

\* Filter::process / ColorCloud::process / Grids::process / Histogram::process:
\* the calls each makes under its enable condition.
PassCalls(step, c) ==
    CASE step = "set_shared_srv" -> <<"set_shared_srv">>
      [] step = "filter" ->
            <<"filter.process">> \o
            (IF c.enable_filter THEN <<"filter.draw">> ELSE <<>>)
      [] step = "colorcloud" ->
            <<"colorcloud.process">> \o
            (IF c.enable_color_cloud
                THEN <<"colorcloud.clear", "colorcloud.compute", "colorcloud.draw">>
                ELSE <<>>)
      [] step = "grids" ->
            <<"grids.process">> \o
            (IF c.enable_color_cloud /\ c.show_grid THEN <<"grids.show">> ELSE <<>>)
      [] step = "histogram" ->
            <<"histogram.process">> \o
            (IF c.enable_histogram
                THEN <<"histogram.clear", "histogram.compute", "histogram.draw">>
                ELSE <<>>)
      [] OTHER -> <<>>

\* math::div_round_up
DivRoundUpPlusOne(num, div) == num \div div + 1
DivRoundUp(num, div) == (num + div - 1) \div div

\* `const THREAD: u32 = 8` of ColorCloud::compute, `let threads = 2 * 8` of
\* Histogram::compute: the pixels one thread group covers in each direction.
THREAD == 8
HistogramThreads == 2 * 8

\* ColorCloud::clear, ColorCloud::compute, ColorCloud::draw: the commands
\* each records, in order.
ColorCloudClear ==
    <<Barrier({"cloud"}, "read", "uav"), Cmd("clear_uav", {"cloud"}, 1)>>
ColorCloudParams(c) ==
    [left |-> c.window_rect.left, top |-> c.window_rect.top,
     right |-> c.window_rect.right, bottom |-> c.window_rect.bottom,
     mode |-> 0, ch |-> 0]
ColorCloudComputeRoundsDown(c) ==
    <<Cmd("set_uavs", {"cloud"}, 1),
      Dispatch("dispatch.colorcloud", {"cloud"},
               RectWidth(c.window_rect) \div THREAD,
               RectHeight(c.window_rect) \div THREAD, ColorCloudParams(c))>>
ColorCloudCompute(c) ==
    <<Cmd("set_uavs", {"cloud"}, 1),
      Dispatch("dispatch.colorcloud", {"cloud"},
               DivRoundUp(RectWidth(c.window_rect), THREAD),
               DivRoundUp(RectHeight(c.window_rect), THREAD), ColorCloudParams(c))>>
\* Config::projection_matrix: the rotation, scaled by
\* 0.9 * min(width, height) / max(width, height) (kept as the fraction
\* num / den) and moved to depth 0.5.
ProjectionMatrix(c) ==
    LET width == RectWidth(c.window_rect)
        height == RectHeight(c.window_rect)
    IN [rotation |-> c.rotation,
        num |-> 9 * (IF width <= height THEN width ELSE height),
        den |-> 10 * Max(width, height)]
\* set_graphics_constants(&params) with a projection, followed by the draw
DrawProjected(res, c) == [Cmd("draw", res, 0) EXCEPT !.proj = ProjectionMatrix(c)]
\* ColorCloud::draw: `max_count = width * height / 9` in i32 and
\* `inv_max_count: 1.0 / (max_count as f32)`, which is infinite for 0; a
\* finite inverse is kept as the fraction num / den.
MaxCount(c) == (RectWidth(c.window_rect) * RectHeight(c.window_rect)) \div 9
InvMaxCount(max_count) ==
    [finite |-> max_count # 0, num |-> 1, den |-> max_count]
ColorCloudDrawCmd(c) ==
    [DrawProjected({"cloud"}, c) EXCEPT !.max_count = MaxCount(c),
                                        !.inv_max_count = InvMaxCount(MaxCount(c))]
ColorCloudDrawBarrierLate(c) ==
    <<Cmd("set_graphics_srvs", {"cloud"}, 1), ColorCloudDrawCmd(c),
      Barrier({"cloud"}, "uav", "read")>>
ColorCloudDraw(c) ==
    <<Barrier({"cloud"}, "uav", "read"), Cmd("set_graphics_srvs", {"cloud"}, 1),
      ColorCloudDrawCmd(c)>>

\* Histogram::clear, Histogram::compute, Histogram::draw: one ResourceBarrier
\* call for the four buffers, one clear_uav for each, one table of four
\* views for the dispatch and one for the draw.
HistogramClearNoClear ==
    <<Barrier(HistBuffers, "read", "uav")>>
HistogramClear ==
    <<Barrier(HistBuffers, "read", "uav"),
      Cmd("clear_uav", {"hist0"}, 1), Cmd("clear_uav", {"hist1"}, 1),
      Cmd("clear_uav", {"hist2"}, 1), Cmd("clear_uav", {"hist3"}, 1)>>
\* `let ch = match config.histogram_mode { RGB => 3, RGBL => 4, _ => 1 }`
HistogramCh(mode) ==
    IF mode = HISTOGRAM_MODE_RGB THEN 3
    ELSE IF mode = HISTOGRAM_MODE_RGBL THEN 4
    ELSE 1
HistogramParams(c) ==
    [left |-> c.window_rect.left, top |-> c.window_rect.top,
     right |-> c.window_rect.right, bottom |-> c.window_rect.bottom,
     mode |-> c.histogram_mode, ch |-> HistogramCh(c.histogram_mode)]
HistogramCompute(c) ==
    <<Cmd("set_uavs", HistBuffers, 4),
      Dispatch("dispatch.histogram", HistBuffers,
               DivRoundUp(RectWidth(c.window_rect), HistogramThreads),
               DivRoundUp(RectHeight(c.window_rect), HistogramThreads),
               HistogramParams(c))>>
\* Histogram::draw: `let ch = match config.histogram_mode { .. }` and
\* `ctx.draw(2 * 256, ch)`, ch being the instance count.
HistogramDrawInstancesNoRgbl(mode) ==
    IF mode = HISTOGRAM_MODE_RGB THEN 3 ELSE 1
HistogramDrawInstances(mode) ==
    IF mode = HISTOGRAM_MODE_RGB THEN 3
    ELSE IF mode = HISTOGRAM_MODE_RGBL THEN 4
    ELSE 1
\* draw(vertex_count, instance_count)
Draw(res, instances) == [Cmd("draw", res, 0) EXCEPT !.y = instances]
HistogramDrawBindsCapture(c) ==
    <<Barrier(HistBuffers, "uav", "read"), Cmd("set_graphics_srvs", HistBuffers, 4),
      Cmd("set_graphics_srvs", {"capture"}, 1),
      Draw(HistBuffers, HistogramDrawInstances(c.histogram_mode))>>
HistogramDraw(c) ==
    <<Barrier(HistBuffers, "uav", "read"), Cmd("set_graphics_srvs", HistBuffers, 4),
      Draw(HistBuffers, HistogramDrawInstances(c.histogram_mode))>>

\* Filter::process, ColorCloud::process, Grids::process, Histogram::process:
\* what each records under its enable condition (state setting and
\* constants are left out).
FilterCommands(c) ==
    IF c.enable_filter THEN <<Cmd("draw", {"capture"}, 0)>> ELSE <<>>
ColorCloudCommands(c) ==
    IF c.enable_color_cloud
       THEN ColorCloudClear \o ColorCloudCompute(c) \o ColorCloudDraw(c)
       ELSE <<>>
\* `grids: [VertexBuffer; 2]`, indexed in Grids::show by
\* `config.color_cloud_mode as usize`: a mode that is no index panics.
NumGrids == 2
GridsShown(c) == c.enable_color_cloud /\ c.show_grid
GridsIndexPanics(c) == GridsShown(c) /\ c.color_cloud_mode \notin 0..(NumGrids - 1)
GridsCommands(c) ==
    IF GridsShown(c) /\ ~GridsIndexPanics(c) THEN <<DrawProjected({"grid"}, c)>> ELSE <<>>
HistogramCommandsAlways(c) ==
    HistogramClear \o HistogramCompute(c) \o HistogramDraw(c)
HistogramCommands(c) ==
    IF c.enable_histogram
       THEN HistogramClear \o HistogramCompute(c) \o HistogramDraw(c)
       ELSE <<>>

\* The commands each statement of process() records.
PassCommands(step, c) ==
    CASE step = "set_shared_srv" -> <<Cmd("set_shared_srv", {"capture"}, 1)>>
      [] step = "filter" -> FilterCommands(c)
      [] step = "colorcloud" -> ColorCloudCommands(c)
      [] step = "grids" -> GridsCommands(c)
      [] step = "histogram" -> HistogramCommands(c)
      [] OTHER -> <<>>

\* DescriptorHeap::new(&device, 16): the shader-visible heap's capacity.
ShaderVisibleDescriptors == 16

\* Renderer::copy_descriptors over a list of commands: the slots they take.
RECURSIVE Descriptors(_)
Descriptors(cs) == IF cs = <<>> THEN 0 ELSE Head(cs).n + Descriptors(Tail(cs))

\* One statement of process() between create_renderer and execute; the
\* `expect("too many descriptors")` of copy_descriptors ends the thread.
\* `&config`, the clone Pipeline::process was called with, handed to every
\* pass.
PassConfigLive(step) == IF step = "grids" THEN config ELSE snapshot
PassConfig(step) == snapshot

RunPass(step) ==
    /\ pipePc = step
    /\ LET recorded == PassCommands(step, PassConfig(step))
           n == Descriptors(recorded)
       IN IF step = "grids" /\ GridsIndexPanics(snapshot)
             THEN /\ log' = log \o <<"grids.process", "index out of bounds">>
                  /\ Fail("index out of bounds")
                  /\ UNCHANGED <<cursor, cmds>>
          ELSE IF cursor + n > ShaderVisibleDescriptors
             THEN /\ log' = Append(log, "too many descriptors")
                  /\ Fail("too many descriptors")
                  /\ UNCHANGED <<cursor, cmds>>
             ELSE /\ log' = log \o PassCalls(step, snapshot)
                  /\ cmds' = cmds \o recorded
                  /\ cursor' = cursor + n
                  /\ pipePc' = AfterStep(step)
                  /\ err' = err
    /\ UNCHANGED <<target, viewports, closed, submitted, stampVars, execVars, config, lockHolder, stable,
                   uiVars, termVars, snapshot, duplVars, frameVars, gpuVars>>

SetSharedSrv == RunPass("set_shared_srv")
FilterProcess == RunPass("filter")
ColorCloudProcess == RunPass("colorcloud")
GridsProcess == RunPass("grids")
HistogramProcess == RunPass("histogram")

\* ---------------------------------------------------------------- Renderer::timestamp
Labels == {"a", "b"}

\* TimestampQueryIter::next: the slot for the label when fewer than the
\* heap's size are recorded (the label is pushed), None otherwise.
TimestampQueryIterNextUnbounded(ls, label) ==
    [index |-> Len(ls), labels |-> Append(ls, label)]
TimestampQueryIterNext(ls, label) ==
    IF Len(ls) < QueryCount
       THEN [index |-> Len(ls), labels |-> Append(ls, label)]
       ELSE [index |-> -1, labels |-> ls]

EndQuery(index) == [Cmd("end_query", {"queries"}, 0) EXCEPT !.x = index]

\* Renderer::timestamp(label), called on a renderer between its creation and
\* execute: EndQuery on the slot next() gave, nothing when it gave None.
Timestamp ==
    /\ pipePc \in {"set_shared_srv", "execute"}
    /\ stampCalls < QueryCount + MaxExtraCalls
    /\ stampCalls' = stampCalls + 1
    /\ \E label \in Labels :
          LET next == TimestampQueryIterNext(labels, label) IN
          /\ labels' = next.labels
          /\ cmds' = IF next.index >= 0 THEN Append(cmds, EndQuery(next.index)) ELSE cmds
    /\ UNCHANGED <<cursor, target, viewports, closed, submitted, queries, staging, reports, execVars,
                   config, lockHolder, stable, uiVars, termVars, pipePc, snapshot, err,
                   duplVars, frameVars, gpuVars, log>>

\* ---------------------------------------------------------------- Context::execute
\* resolve_query, Renderer::close, CommandQueue::execute.
\* Renderer::close: the barrier it records before CommandList::close.
\* Renderer::resolve_query: ResolveQueryData of the first count() slots into
\* the staging buffer, count() being the number of labels recorded.
ResolveQuery(ls) == <<[Cmd("resolve_query", {"staging"}, 0) EXCEPT !.x = Len(ls)]>>

RendererCloseNoBarrier(i) == <<>>
RendererClose(i) == <<Barrier({BackName(i)}, "render_target", "present")>>

ExecuteSubmitKeepsOpen ==
    /\ pipePc = "execute"
    /\ cmds' = cmds \o ResolveQuery(labels) \o RendererClose(target)
    /\ swap' = [swap EXCEPT !.states = RecordBarriers(@, RendererClose(target))]
    /\ log' = log \o <<"resolve_query", "close", "submit">>
    /\ closed' = closed + 1
    /\ submitted' = submitted + 1
    /\ gpuQueue' = Append(gpuQueue, [op |-> "exec", value |-> frameNo])
    /\ pipePc' = "present"
    /\ UNCHANGED <<cmdState, err, cursor, target, viewports, stampVars, execVars, config, lockHolder, stable,
                   uiVars, termVars, snapshot, duplVars, frameNo, fence_value,
                   completedValue>>

\* Context::execute: the statement after `self.command_queue.execute(..)?`.
AfterSubmitSkipsPresent == "fence_signal"
AfterSubmit == "present"

ExecuteSubmit ==
    /\ pipePc = "execute"
    /\ cmds' = cmds \o ResolveQuery(labels) \o RendererClose(target)
    /\ swap' = [swap EXCEPT !.states = RecordBarriers(@, RendererClose(target))]
    /\ \E o \in {"ok", "close_err", "cast_err"} :
          CASE o = "ok" ->
                  /\ log' = log \o <<"resolve_query", "close", "submit">>
                  /\ cmdState' = "closed"
                  /\ closed' = closed + 1
                  /\ submitted' = submitted + 1
                  /\ gpuQueue' = Append(gpuQueue, [op |-> "exec", value |-> frameNo])
                  /\ pipePc' = AfterSubmit
                  /\ err' = err
            [] o = "cast_err" ->
                  /\ log' = log \o <<"resolve_query", "close">>
                  /\ cmdState' = "closed"
                  /\ Fail("close")
                  /\ UNCHANGED <<closed, submitted, gpuQueue>>
            [] OTHER ->
                  /\ log' = log \o <<"resolve_query", "close">>
                  /\ Fail("close")
                  /\ UNCHANGED <<cmdState, closed, submitted, gpuQueue>>
    /\ UNCHANGED <<cursor, target, viewports, stampVars, execVars, config, lockHolder, stable, uiVars,
                   termVars, snapshot, duplVars, frameNo, fence_value, completedValue>>

\* Context::execute: the statement after `self.swap_chain.present()?`.
AfterPresentSkipsFence == "readback"
AfterPresent == "fence_signal"

\* SwapChain::present: Present(1, ..) makes the next buffer the current one.
Present ==
    /\ pipePc = "present"
    /\ log' = Append(log, "present")
    /\ \E ok \in BOOLEAN :
          IF ok THEN /\ pipePc' = AfterPresent /\ err' = err
                     /\ swap' = [swap EXCEPT !.index = (@ + 1) % BUFFER_COUNT]
                ELSE Fail("present") /\ swap' = swap
    /\ UNCHANGED <<renderVars, stampVars, execVars, config, lockHolder, stable, uiVars, termVars,
                   snapshot, duplVars, cmdState, frameNo, gpuVars>>

\* Fence::wait, `command_queue.Signal(&self.fence, fence)?; self.fence_value += 1;`
FenceSignal ==
    /\ pipePc = "fence_signal"
    /\ log' = Append(log, "signal")
    /\ \E ok \in BOOLEAN :
          IF ok
             THEN /\ gpuQueue' = Append(gpuQueue, [op |-> "signal", value |-> fence_value])
                  /\ fence_value' = fence_value + 1
                  /\ pipePc' = "fence_check"
                  /\ err' = err
             ELSE /\ Fail("Signal")
                  /\ UNCHANGED <<gpuQueue, fence_value>>
    /\ UNCHANGED <<renderVars, stampVars, execVars, config, lockHolder, stable, uiVars, termVars,
                   snapshot, duplVars, frameVars, completedValue>>

\* `self.fence.GetCompletedValue() < fence`, fence being the value just signalled.
FenceNeverBelow == FALSE
FenceBelow == completedValue < fence_value - 1

\* Fence::wait, the test: block on the event only when the GPU is behind.
FenceCheck ==
    /\ pipePc = "fence_check"
    /\ IF FenceBelow
          THEN \E ok \in BOOLEAN :
                  IF ok THEN pipePc' = "fence_wait" /\ err' = err
                        ELSE Fail("SetEventOnCompletion")
          ELSE pipePc' = "readback" /\ err' = err
    /\ UNCHANGED <<renderVars, stampVars, execVars, config, lockHolder, stable, uiVars, termVars,
                   snapshot, duplVars, frameVars, gpuVars, log>>

\* WaitForSingleObject(fence_event, INFINITE): returns when the fence reaches
\* the value the event was set for.
FenceReachedAlways == TRUE
FenceReached == completedValue >= fence_value - 1

FenceWait ==
    /\ pipePc = "fence_wait"
    /\ FenceReached
    /\ pipePc' = "readback"
    /\ log' = Append(log, "wait")
    /\ UNCHANGED <<renderVars, stampVars, execVars, config, lockHolder, stable, uiVars, termVars,
                   snapshot, err, duplVars, frameVars, gpuVars>>

\* TimestampQueryPool::dump: every value of the staging buffer in slot order;
\* the first value seen for a label is kept, every later value for it prints
\* its difference to the kept one (the conversion to microseconds is left
\* out).  `labels[i]` panics at the first slot that has no label.
RECURSIVE DumpFrom(_, _, _, _, _)
DumpFrom(i, ls, data, label_time, out) ==
    IF i = QueryCount THEN [out |-> out, ok |-> TRUE]
    ELSE IF i >= Len(ls) THEN [out |-> out, ok |-> FALSE]
    ELSE IF ls[i + 1] \in DOMAIN label_time
       THEN DumpFrom(i + 1, ls, data, label_time,
                     Append(out, [label |-> ls[i + 1], slot |-> i,
                                  dt |-> data[i] - label_time[ls[i + 1]]]))
       ELSE DumpFrom(i + 1, ls, data,
                     [l \in DOMAIN label_time \cup {ls[i + 1]} |->
                         IF l = ls[i + 1] THEN data[i] ELSE label_time[l]],
                     out)
Dump(ls, data) == DumpFrom(0, ls, data, [l \in {} |-> 0], <<>>)

\* `labels.take_if(|labels| !labels.is_empty())`
DumpAlways(ls) == TRUE
DumpWanted(ls) == ls # <<>>

\* GetTimestampFrequency, then dump when labels were recorded (no pass of the
\* program records one); process returns Ok and the iteration ends.
Readback ==
    /\ pipePc = "readback"
    /\ \E ok \in BOOLEAN, mapped \in BOOLEAN :
          IF ~ok
             THEN /\ Fail("GetTimestampFrequency")
                  /\ UNCHANGED <<snapshot, reports, log>>
          ELSE IF ~DumpWanted(labels)
             THEN /\ pipePc' = "loop" /\ err' = err /\ snapshot' = NoConfig
                  /\ UNCHANGED <<reports, log>>
          ELSE IF ~mapped
             THEN /\ Fail("Map")
                  /\ log' = Append(log, "dump")
                  /\ UNCHANGED <<snapshot, reports>>
          ELSE LET d == Dump(labels, staging) IN
               /\ log' = Append(log, "dump")
               /\ reports' = reports \o d.out
               /\ IF d.ok THEN pipePc' = "loop" /\ err' = err /\ snapshot' = NoConfig
                          ELSE Fail("index out of bounds") /\ snapshot' = snapshot
    /\ UNCHANGED <<renderVars, labels, stampCalls, queries, staging, execVars, config,
                   lockHolder, stable, uiVars, termVars, duplVars, frameVars, gpuVars>>

\* ---------------------------------------------------------------- GPU
\* The queue executes in submission order; a Signal entry sets the fence's
\* completed value when the GPU reaches it.
GpuStep ==
    /\ gpuQueue # <<>>
    /\ completedValue' = IF Head(gpuQueue).op = "signal"
                            THEN Head(gpuQueue).value ELSE completedValue
    /\ gpuQueue' = Tail(gpuQueue)
    /\ UNCHANGED <<renderVars, stampVars, execVars, config, lockHolder, stable, uiVars, termVars,
                   pipePc, snapshot, err, duplVars, frameVars, fence_value, log>>

\* ---------------------------------------------------------------- the system
UiStep ==
    \/ UiButton
    \/ UiSlider
    \/ UiDrag
    \/ UiPosChangedBegin
    \/ UiPosChangedEnd
    \/ Terminate
    \/ Drop
    \/ JoinReturn

PipelineStep ==
    \/ LoopCheck
    \/ LockConfig
    \/ CloneConfig
    \/ DuplicateBegin
    \/ AcquireReturn
    \/ Sleep
    \/ CreateRenderer
    \/ SetSharedSrv
    \/ FilterProcess
    \/ ColorCloudProcess
    \/ GridsProcess
    \/ HistogramProcess
    \/ ExecuteSubmit
    \/ Present
    \/ FenceSignal
    \/ FenceCheck
    \/ FenceWait
    \/ Readback

Next == UiStep \/ PipelineStep \/ GpuStep

Spec == Init /\ [][Next]_vars



\* The reduced system the liveness claims are checked in: the handlers that
\* only write one field under the lock are left out.
FairNext ==
    \/ UiPosChangedBegin
    \/ UiPosChangedEnd
    \/ Terminate
    \/ Drop
    \/ JoinReturn
    \/ PipelineStep
    \/ GpuStep

\* The scheduler runs the pipeline thread and the GPU whenever they can take a
\* step; a UI handler that has started runs to its end and a join whose
\* thread has ended returns.
FairSpec ==
    /\ Init /\ [][FairNext]_vars
    /\ WF_vars(PipelineStep)
    /\ WF_vars(GpuStep)
    /\ WF_vars(UiPosChangedEnd)
    /\ WF_vars(JoinReturn)

\* ---------------------------------------------------------------- closing the window
\* Viewer::on_close / on_destroy take the App out of the viewer and call
\* App::on_destroy, which locks the configuration to save it (a poisoned
\* lock skips the save); the guard is dropped at the end of the `if let`.
OnDestroyBegin ==
    /\ uiPc = "idle"
    /\ terminateCalls < MaxTerminate
    /\ lockHolder \in {"none", "poisoned"}
    /\ IF LockAvailable
          THEN lockHolder' = "ui" /\ uiPc' = "on_destroy"
          ELSE lockHolder' = lockHolder /\ uiPc' = "destroyed"
    /\ UNCHANGED <<renderVars, stampVars, execVars, config, stable, uiArg, uiEvents, termVars,
                   pipePc, snapshot, err, duplVars, frameVars, gpuVars, log>>

\* The holder of the lock once `config.save(CONFIG_PATH)` is done and the
\* guard has gone out of scope.
SaveGuardKept == "ui"
SaveGuardDropped == "none"

OnDestroySave ==
    /\ uiPc = "on_destroy"
    /\ lockHolder' = SaveGuardDropped
    /\ uiPc' = "destroyed"
    /\ UNCHANGED <<renderVars, stampVars, execVars, config, stable, uiArg, uiEvents, termVars,
                   pipePc, snapshot, err, duplVars, frameVars, gpuVars, log>>

\* The App goes out of scope at the end of the viewer's `if let`: its
\* Visualizer is dropped, which calls terminate().
AppDrop ==
    /\ uiPc = "destroyed"
    /\ TerminateBody("drop_joining", "dropped")

\* A handler panics while it holds the lock: the guard is dropped during
\* unwinding, which frees the Mutex and marks it poisoned.
UiPanic ==
    /\ uiPc = "pos_changed"
    /\ lockHolder = "ui"
    /\ lockHolder' = "poisoned"
    /\ uiPc' = "idle"
    /\ UNCHANGED <<renderVars, stampVars, execVars, config, stable, uiArg, uiEvents, termVars,
                   pipePc, snapshot, err, duplVars, frameVars, gpuVars, log>>

\* `if let Ok(config) = config.lock() { .. } else { break; }` on a poisoned
\* Mutex: the thread leaves the loop.
OnPoisonedProceeds == "clone"
OnPoisoned == "exited"

LockConfigPoisoned ==
    /\ pipePc = "lock"
    /\ lockHolder = "poisoned"
    /\ pipePc' = OnPoisoned
    /\ log' = Append(log, "lock")
    /\ UNCHANGED <<renderVars, stampVars, execVars, config, lockHolder, stable, uiVars, termVars,
                   snapshot, err, duplVars, frameVars, gpuVars>>

ShutdownNext ==
    \/ UiPosChangedBegin
    \/ UiPosChangedEnd
    \/ UiPanic
    \/ OnDestroyBegin
    \/ OnDestroySave
    \/ AppDrop
    \/ JoinReturn
    \/ LockConfigPoisoned
    \/ PipelineStep
    \/ GpuStep

ShutdownSpec == Init /\ [][ShutdownNext]_vars

\* The scheduler runs the pipeline thread and the GPU whenever they can take a
\* step, and a handler that has started runs to its end or panics.
ShutdownFairSpec ==
    /\ ShutdownSpec
    /\ WF_vars(PipelineStep \/ LockConfigPoisoned)
    /\ WF_vars(GpuStep)
    /\ WF_vars(UiPosChangedEnd \/ UiPanic)
    /\ WF_vars(OnDestroySave)
    /\ WF_vars(AppDrop)
    /\ WF_vars(JoinReturn)

\* ---------------------------------------------------------------- the GPU executing a list
\* RwBuffer::new: the size in bytes of one element of the given format.
ElemSizeOne(format) == 1
ElemSize(format) ==
    IF format \in {"R8_SINT", "R8_UINT", "R8_SNORM", "R8_UNORM"} THEN 1 ELSE 4

\* RwBuffer::new: num_elems typed elements; the raw view used for clearing
\* spans size / 4 32-bit words.
NumElems(res) == Cardinality(Cells(res))
RawElems(res) == (ElemSize("R32_UINT") * NumElems(res)) \div 4

\* The element of its buffer a cell is: a bin is its own index, a cell of the
\* counter is indexed by its quantized RGB.
ElementOf(res, cell) ==
    IF res = "cloud"
       THEN cell[1] + (MaxLevel + 1) * cell[2] + (MaxLevel + 1) * (MaxLevel + 1) * cell[3]
       ELSE cell

\* The 32-bit word of the raw view that holds a cell: the typed and the raw
\* views span the same bytes.
LinearIndex(res, cell) == (ElementOf(res, cell) * ElemSize("R32_UINT")) \div 4

\* Renderer::clear_uav: ClearUnorderedAccessViewUint with [0; 4] and no
\* rectangles writes zero to every word of the raw view.
ClearUav(contents, res) ==
    [cell \in Cells(res) |->
        IF LinearIndex(res, cell) < RawElems(res) THEN 0 ELSE contents[cell]]

\* The threads of a dispatch of x by y groups, each group covering
\* `threads` pixels in each direction, that fall inside the rectangle, as
\* the pixel each reads.
ThreadPixels(c, threads) ==
    {<<c.params.left + tx, c.params.top + ty>> :
        tx \in {t \in 0..(c.x * threads - 1) : t < c.params.right - c.params.left},
        ty \in {t \in 0..(c.y * threads - 1) : t < c.params.bottom - c.params.top}}

\* The histogram buffers a mode writes, and the bin a pixel's colour falls in.
HistChannels(mode) ==
    IF mode = HISTOGRAM_MODE_RGB THEN {"hist0", "hist1", "hist2"}
    ELSE IF mode = HISTOGRAM_MODE_RGBL THEN HistBuffers
    ELSE {"hist3"}
Luma(color) == (color[1] + color[2] + color[3]) \div 3
Hue(color) ==
    IF color[1] >= color[2] /\ color[1] >= color[3] THEN 0 ELSE MaxLevel
ChannelValue(res, mode, color) ==
    CASE res = "hist0" -> color[1]
      [] res = "hist1" -> color[2]
      [] res = "hist2" -> color[3]
      [] OTHER -> IF mode = HISTOGRAM_MODE_HUE THEN Hue(color) ELSE Luma(color)

\* HistogramCs: every thread inside the rectangle adds one to the bin of its
\* pixel in each buffer the mode writes.
HistogramCs(contents, image, c) ==
    LET pixels == ThreadPixels(c, HistogramThreads) IN
    [res \in AggBuffers |->
        IF res \in HistChannels(c.params.mode)
           THEN [bin \in Levels |->
                    contents[res][bin] +
                    Cardinality({px \in pixels :
                        ChannelValue(res, c.params.mode, PixelAt(image, px)) = bin})]
           ELSE contents[res]]

\* ColorCloudCs: every thread inside the rectangle adds one to the cell of
\* its pixel's colour.
ColorCloudCs(contents, image, c) ==
    LET pixels == ThreadPixels(c, THREAD) IN
    [contents EXCEPT !["cloud"] =
        [cell \in Colors |->
            @[cell] + Cardinality({px \in pixels : PixelAt(image, px) = cell})]]

\* What one command does to the contents of the aggregation buffers.
ExecMem(contents, image, c) ==
    CASE c.op = "clear_uav" ->
            [res \in AggBuffers |->
                IF res \in c.res THEN ClearUav(contents[res], res) ELSE contents[res]]
      [] c.op = "dispatch.histogram" -> HistogramCs(contents, image, c)
      [] c.op = "dispatch.colorcloud" -> ColorCloudCs(contents, image, c)
      [] OTHER -> contents

\* What one command does to the resource states of the aggregation buffers:
\* a transition barrier leaves each buffer it names in its after-state.
ExecBarrier(states, c) ==
    IF c.op = "barrier"
       THEN [res \in AggBuffers |->
                IF res \in c.res
                   THEN c.after
                   ELSE states[res]]
       ELSE states

\* EndQuery writes the GPU's tick (here the number of the command) into its
\* slot; ResolveQueryData copies the first x slots to the staging buffer.
ExecQueries(slots, tick, c) ==
    IF c.op = "end_query" THEN [slots EXCEPT ![c.x] = tick] ELSE slots
ExecStaging(buffer, slots, c) ==
    IF c.op = "resolve_query"
       THEN [i \in Slots |-> IF i < c.x THEN slots[i] ELSE buffer[i]]
       ELSE buffer

\* The GPU has reached a submitted list and has commands of it left.
Executing ==
    /\ gpuQueue # <<>> /\ Head(gpuQueue).op = "exec"
    /\ gpuPc < Len(cmds)

\* The GPU executes the next command of the submitted list.
GpuExecute ==
    /\ Executing
    /\ mem' = ExecMem(mem, frame, cmds[gpuPc + 1])
    /\ resState' = ExecBarrier(resState, cmds[gpuPc + 1])
    /\ queries' = ExecQueries(queries, gpuPc + 1, cmds[gpuPc + 1])
    /\ staging' = ExecStaging(staging, queries, cmds[gpuPc + 1])
    /\ gpuPc' = gpuPc + 1
    /\ UNCHANGED <<renderVars, labels, stampCalls, reports, frame, pool, config, lockHolder, stable, uiVars,
                   termVars,
                   pipePc, snapshot, err, duplVars, frameVars, gpuVars, log>>

\* ---------------------------------------------------------------- one frame
\* The configurations, capture rectangles and desktop images a frame is
\* followed for, and the contents an earlier frame may have left.
FrameRects == {RectNew(0, 0, 1, 1), RectNew(1, 0, 2, 2), RectNew(0, 0, ScreenW, ScreenH)}
\* color-cloud-mode is read from the settings file as any u32: the two modes
\* and one value that is neither.
ColorCloudModes == {COLORCLOUD_MODE_RGB, COLORCLOUD_MODE_HSL, NumGrids}
\* histogram-mode is read from the settings file as any u32: the four modes
\* and one value that is none of them.
HistogramModes ==
    {HISTOGRAM_MODE_RGB, HISTOGRAM_MODE_RGBL, HISTOGRAM_MODE_LUMA, HISTOGRAM_MODE_HUE,
     HISTOGRAM_MODE_HUE + 1}
AllFrameConfigs ==
    {[DefaultConfig EXCEPT !.enable_filter = f, !.enable_histogram = h,
                           !.enable_color_cloud = k, !.show_grid = g,
                           !.histogram_mode = m, !.window_rect = r,
                           !.color_cloud_mode = cm] :
        f \in BOOLEAN, h \in BOOLEAN, k \in BOOLEAN, g \in BOOLEAN,
        cm \in ColorCloudModes, m \in HistogramModes, r \in FrameRects}
\* A mode that no pass of the frame reads is left at its default.
FrameConfigs ==
    {c \in AllFrameConfigs :
        /\ c.enable_histogram \/ c.histogram_mode = DefaultConfig.histogram_mode
        /\ GridsShown(c) \/ c.color_cloud_mode = DefaultConfig.color_cloud_mode}
Frames ==
    {SolidFrame(c) : c \in Colors} \cup {SplitFrame(<<0, 0, 0>>, <<MaxLevel, 0, MaxLevel>>)}
DirtyMem == [res \in AggBuffers |-> [cell \in Cells(res) |-> 3]]

\* The thread has captured a frame and is about to call create_renderer,
\* after an earlier frame that used every slot of the shader-visible heap:
\* either no pass has run yet (the buffers as created) or the passes ran
\* (contents left behind, the buffers in the read state).
FrameInit ==
    /\ config \in FrameConfigs
    /\ stable = config
    /\ snapshot = config
    /\ lockHolder = "none"
    /\ keep_running = TRUE /\ join_handle = TRUE /\ joins = 0
    /\ uiPc = "idle" /\ uiArg = RectNew(0, 0, 0, 0) /\ uiEvents = 0
    /\ terminateCalls = 0
    /\ pipePc = "create_renderer"
    /\ err = "none"
    /\ dupl = [acquired |-> TRUE, resource |-> TRUE]
    /\ lastDup = [release |-> "ok", hr |-> "ok", frames |-> 1, wrap |-> "ok",
                  result |-> "some"]
    /\ framesLeft = 0
    /\ swap = [SwapChainNew(HwndSize[1], HwndSize[2]) EXCEPT !.index = 1]
    /\ cmdState = "closed"
    /\ fence_value = 2 /\ completedValue = 1 /\ gpuQueue = <<>>
    /\ frameNo = 1 /\ closed = 1 /\ submitted = 1
    /\ log = <<"lock", "clone", "duplicate">>
    /\ cursor = ShaderVisibleDescriptors
    /\ cmds = <<>>
    /\ target = 0
    /\ viewports = Viewports(0, 0)
    /\ gpuPc = 0
    /\ mem \in {ZeroMem, DirtyMem}
    /\ resState = IF mem = ZeroMem THEN InitResState ELSE UsedResState
    /\ frame \in Frames
    /\ labels = <<>> /\ stampCalls = 0
    /\ queries = ZeroTicks /\ staging = ZeroTicks /\ reports = <<>>
    /\ pool = BuiltPool

FrameNext ==
    \/ CreateRenderer
    \/ SetSharedSrv
    \/ FilterProcess
    \/ ColorCloudProcess
    \/ GridsProcess
    \/ HistogramProcess
    \/ ExecuteSubmit
    \/ GpuExecute

FrameSpec == FrameInit /\ [][FrameNext]_vars

\* ---------------------------------------------------------------- one frame with timestamps
\* The queue entry at the head is done: a list once the GPU has executed all
\* of its commands, a Signal at once.
GpuRetire ==
    /\ ~Executing
    /\ GpuStep

\* As FrameInit, with no pass enabled; the code using the renderer calls
\* timestamp() before and after the passes.
StampInit ==
    /\ config = DefaultConfig
    /\ stable = config
    /\ snapshot = config
    /\ lockHolder = "none"
    /\ keep_running = TRUE /\ join_handle = TRUE /\ joins = 0
    /\ uiPc = "idle" /\ uiArg = RectNew(0, 0, 0, 0) /\ uiEvents = 0
    /\ terminateCalls = 0
    /\ pipePc = "create_renderer"
    /\ err = "none"
    /\ dupl = [acquired |-> TRUE, resource |-> TRUE]
    /\ lastDup = [release |-> "ok", hr |-> "ok", frames |-> 1, wrap |-> "ok",
                  result |-> "some"]
    /\ framesLeft = 0
    /\ swap = [SwapChainNew(HwndSize[1], HwndSize[2]) EXCEPT !.index = 1]
    /\ cmdState = "closed"
    /\ fence_value = 2 /\ completedValue = 1 /\ gpuQueue = <<>>
    /\ frameNo = 1 /\ closed = 1 /\ submitted = 1
    /\ log = <<"lock", "clone", "duplicate">>
    /\ cursor = 0
    /\ cmds = <<>>
    /\ target = 0
    /\ viewports = Viewports(0, 0)
    /\ gpuPc = 0
    /\ mem = ZeroMem
    /\ resState = InitResState
    /\ frame = SolidFrame(<<0, 0, 0>>)
    /\ labels = <<>> /\ stampCalls = 0
    /\ queries = ZeroTicks /\ staging = ZeroTicks /\ reports = <<>>
    /\ pool = BuiltPool

StampNext ==
    \/ CreateRenderer
    \/ Timestamp
    \/ SetSharedSrv
    \/ FilterProcess
    \/ ColorCloudProcess
    \/ GridsProcess
    \/ HistogramProcess
    \/ ExecuteSubmit
    \/ Present
    \/ FenceSignal
    \/ FenceCheck
    \/ FenceWait
    \/ Readback
    \/ GpuExecute
    \/ GpuRetire

StampSpec == StampInit /\ [][StampNext]_vars

\* ---------------------------------------------------------------- recording one frame
\* A frame with both compute passes on, for every size of the capture
\* rectangle up to MaxSide in each direction, followed while it is recorded.
RecordConfigs ==
    {[DefaultConfig EXCEPT !.enable_histogram = TRUE, !.enable_color_cloud = TRUE,
                           !.window_rect = RectNew(1, 0, w, h)] :
        w \in 1..MaxSide, h \in 1..MaxSide}

RecordInit ==
    /\ config \in RecordConfigs
    /\ stable = config
    /\ snapshot = config
    /\ lockHolder = "none"
    /\ keep_running = TRUE /\ join_handle = TRUE /\ joins = 0
    /\ uiPc = "idle" /\ uiArg = RectNew(0, 0, 0, 0) /\ uiEvents = 0
    /\ terminateCalls = 0
    /\ pipePc = "create_renderer"
    /\ err = "none"
    /\ dupl = [acquired |-> TRUE, resource |-> TRUE]
    /\ lastDup = [release |-> "ok", hr |-> "ok", frames |-> 1, wrap |-> "ok",
                  result |-> "some"]
    /\ framesLeft = 0
    /\ swap = [SwapChainNew(HwndSize[1], HwndSize[2]) EXCEPT !.index = 1]
    /\ cmdState = "closed"
    /\ fence_value = 2 /\ completedValue = 1 /\ gpuQueue = <<>>
    /\ frameNo = 1 /\ closed = 1 /\ submitted = 1
    /\ log = <<"lock", "clone", "duplicate">>
    /\ cursor = 0
    /\ cmds = <<>>
    /\ target = 0
    /\ viewports = Viewports(0, 0)
    /\ gpuPc = 0
    /\ mem = ZeroMem
    /\ resState = InitResState
    /\ frame = SolidFrame(<<0, 0, 0>>)
    /\ labels = <<>> /\ stampCalls = 0
    /\ queries = ZeroTicks /\ staging = ZeroTicks /\ reports = <<>>
    /\ pool = BuiltPool

RecordNext ==
    \/ CreateRenderer
    \/ SetSharedSrv
    \/ FilterProcess
    \/ ColorCloudProcess
    \/ GridsProcess
    \/ HistogramProcess

RecordSpec == RecordInit /\ [][RecordNext]_vars

\* ---------------------------------------------------------------- Pipeline::new
\* Visualizer::new: Pipeline::new(hwnd)? runs before the thread is spawned.
\* A constructor returns Ok, or an Err that `?` hands to the caller, or dies
\* in next_descriptor; only after the last one does the thread start.
PipelineNewStage(stage) ==
    /\ pipePc = "new" /\ pool.stage <= Len(Stages) /\ Stages[pool.stage] = stage
    /\ \E ok \in BOOLEAN :
          LET built == StageBuilt(pool, stage) IN
          IF built.panicked
          THEN /\ pool' = built
               /\ err' = "descriptor size limit"
               /\ pipePc' = "failed"
          ELSE IF ok
          THEN /\ pool' = built
               /\ err' = err
               /\ pipePc' = IF built.stage > Len(Stages) THEN "loop" ELSE "new"
          ELSE /\ pool' = pool
               /\ err' = "present"
               /\ pipePc' = "failed"
    /\ UNCHANGED <<renderVars, stampVars, gpuPc, mem, resState, frame, config, lockHolder,
                   stable, uiVars, termVars, snapshot, duplVars, frameVars, gpuVars, log>>

DuplicationNew == PipelineNewStage("duplication")
ColorCloudNew == PipelineNewStage("colorcloud")
FilterNew == PipelineNewStage("filter")
HistogramNew == PipelineNewStage("histogram")
GridsNew == PipelineNewStage("grids")

ConstructInit ==
    /\ config \in InitConfigs
    /\ stable = config
    /\ lockHolder = "none"
    /\ keep_running = TRUE
    /\ join_handle = TRUE
    /\ joins = 0
    /\ uiPc = "idle"
    /\ uiArg = RectNew(0, 0, 0, 0)
    /\ uiEvents = 0
    /\ terminateCalls = 0
    /\ pipePc = "new"
    /\ snapshot = NoConfig
    /\ err = "none"
    /\ dupl = [acquired |-> FALSE, resource |-> FALSE]
    /\ lastDup = NoDup
    /\ framesLeft = MaxFrames
    /\ swap = SwapChainNew(HwndSize[1], HwndSize[2])
    /\ cmdState = "closed"
    /\ fence_value = 1
    /\ completedValue = 0
    /\ gpuQueue = <<>>
    /\ frameNo = 0
    /\ log = <<>>
    /\ cursor = 0
    /\ cmds = <<>>
    /\ target = 0
    /\ viewports = Viewports(0, 0)
    /\ closed = 0
    /\ submitted = 0
    /\ gpuPc = 0
    /\ mem = ZeroMem
    /\ resState = InitResState
    /\ frame = SolidFrame(<<0, 0, 0>>)
    /\ labels = <<>> /\ stampCalls = 0
    /\ queries = ZeroTicks /\ staging = ZeroTicks /\ reports = <<>>
    /\ pool = EmptyPool

ConstructNext ==
    \/ DuplicationNew \/ ColorCloudNew \/ FilterNew \/ HistogramNew \/ GridsNew
    \/ PipelineStep \/ GpuStep

ConstructSpec == ConstructInit /\ [][ConstructNext]_vars

\* ---------------------------------------------------------------- claims
IsPrefix(s, t) == Len(s) <= Len(t) /\ \A i \in 1..Len(s) : s[i] = t[i]
Count(s, e) == Cardinality({i \in 1..Len(s) : s[i] = e})

PassOrder == <<"set_shared_srv", "filter.process", "colorcloud.process",
               "grids.process", "histogram.process", "close", "submit">>
IsOrderedCall(e) == \E i \in 1..Len(PassOrder) : PassOrder[i] = e

\* C1: in every iteration the calls set_shared_srv, Filter, Color Cloud, Grid,
\* Histogram, close, submit occur in exactly this order, none skipped or
\* repeated, whatever the configuration snapshot holds.
C1_PassOrder == IsPrefix(SelectSeq(log, IsOrderedCall), PassOrder)

\* C1 witness: a frame recorded with every pass drawing has been submitted.
C1_Witness ==
    /\ Count(log, "submit") = 1
    /\ Count(log, "filter.draw") = 1 /\ Count(log, "grids.show") = 1
    /\ Count(log, "histogram.draw") = 1

\* duplicate() has returned Ok(None) in the current iteration.
NoFrameIteration == lastDup.hr # "none" /\ lastDup.result = "none"

\* C2: once duplicate() has reported no frame, the iteration only sleeps and
\* returns to the top of the loop: the calls made are lock, clone, duplicate,
\* sleep, and no step changes the swap chain, the command list, the renderer
\* count, the queue, the fence value or the error.
C2_NoFrameIdle ==
    [][NoFrameIteration =>
          /\ pipePc \in {"sleep", "loop"}
          /\ log = IF pipePc = "sleep" THEN <<"lock", "clone", "duplicate">>
                   ELSE <<"lock", "clone", "duplicate", "sleep">>
          /\ pipePc' \in {"sleep", "loop", "lock", "exited"}
          /\ (pipePc = "sleep" => pipePc' \in {"sleep", "loop"})
          /\ UNCHANGED <<swap, cmdState, frameNo, fence_value, completedValue,
                         gpuQueue, err>>]_vars

\* C2 witness: a no-frame iteration (here after a timeout) has ended, after
\* an earlier frame had been rendered.
C2_Witness ==
    /\ NoFrameIteration /\ lastDup.hr = "timeout" /\ pipePc = "loop"
    /\ frameNo = 1

\* C3 as stated: a view exactly when acquisition succeeds with >= 1 frame.
C3_Original ==
    lastDup.hr # "none" =>
        /\ lastDup.result = "some" <=> (lastDup.hr = "ok" /\ lastDup.frames >= 1)
        /\ lastDup.result = "none" <=>
               \/ (lastDup.hr = "ok" /\ lastDup.frames = 0)
               \/ lastDup.hr = "timeout"
        /\ lastDup.result = "err" <=> lastDup.hr = "error"

\* C3 amended: a view exactly when acquisition succeeds with >= 1 frame and
\* the frame is wrapped successfully; no frame exactly for zero accumulated
\* frames or the wait timeout; an error for every other acquisition failure
\* and for a failed wrap.
C3_DuplicateOutcome ==
    lastDup.hr # "none" =>
        /\ lastDup.result = "some" <=>
               (lastDup.hr = "ok" /\ lastDup.frames >= 1 /\ lastDup.wrap = "ok")
        /\ lastDup.result = "none" <=>
               \/ (lastDup.hr = "ok" /\ lastDup.frames = 0)
               \/ lastDup.hr = "timeout"
        /\ lastDup.result = "err" <=>
               \/ lastDup.hr = "error"
               \/ (lastDup.hr = "ok" /\ lastDup.frames >= 1 /\ lastDup.wrap # "ok")

\* C3 witness: the wait timed out and duplicate() answered no frame.
C3_Witness == lastDup.hr = "timeout" /\ lastDup.result = "none" /\ pipePc = "sleep"

\* C4: a step that records an error puts the thread out of its loop, and once
\* out the thread never moves again: no call is added to the iteration, no
\* capture, renderer, command list, fence value or error changes.
C4_ErrorExits ==
    [][/\ err' # err => pipePc' = "exited"
       /\ pipePc = "exited" =>
             /\ pipePc' = "exited"
             /\ UNCHANGED <<log, snapshot, err, dupl, lastDup, framesLeft, swap,
                            cmdState, frameNo, fence_value>>]_vars

\* C4 witness: present failed after the frame's submission and the thread is out.
C4_Witness == err = "present" /\ pipePc = "exited" /\ Count(log, "submit") = 1

\* C5: while the command list is open (from the Reset in create_renderer to
\* close) nothing submitted is pending on the GPU and every signalled fence
\* value has completed; at no time is more than one submission pending.
C5_SingleFrameInFlight ==
    /\ Count(gpuQueue, [op |-> "exec", value |-> frameNo]) <= 1
    /\ \A i \in 1..Len(gpuQueue) : gpuQueue[i].op = "exec" => gpuQueue[i].value = frameNo
    /\ cmdState = "open" => (gpuQueue = <<>> /\ completedValue = fence_value - 1)

\* C5 witness: the second frame is being recorded.
C5_Witness == cmdState = "open" /\ frameNo = 2 /\ fence_value = 2

\* C6: whenever the thread takes a new snapshot, it equals the shared value as
\* it stood when no UI update was in progress.
C6_NoTornSnapshot ==
    [][(snapshot' # snapshot /\ snapshot' # NoConfig) => snapshot' = stable]_vars

\* C6 witness: a snapshot taken after on_pos_changed stored a new rectangle.
C6_Witness ==
    /\ snapshot # NoConfig
    /\ \A c \in InitConfigs : snapshot.window_rect # c.window_rect

\* C7: the thread holds the lock only between lock() and the clone; in every
\* later position of the iteration it has taken the lock exactly once and
\* holds it no more.
C7_LockOnlyForClone ==
    /\ lockHolder = "pipe" => pipePc = "clone"
    /\ Count(log, "lock") <= 1
    /\ pipePc \notin {"loop", "lock", "exited"} => Count(log, "lock") = 1

\* C7 witness: the UI thread holds the lock while the pipeline thread waits
\* on the fence.
C7_Witness == pipePc = "fence_wait" /\ lockHolder = "ui"

\* C8: a step that changes the shared configuration is a UI handler's step:
\* it leaves the thread's position, snapshot and calls alone.
C8_PipelineNeverWrites ==
    [][config' # config =>
          /\ uiEvents' = uiEvents + 1 \/ uiPc = "pos_changed"
          /\ UNCHANGED <<pipePc, snapshot, log>>]_vars

\* C8 witness: mid-iteration the shared value has moved away from the
\* thread's private copy.
C8_Witness == snapshot # NoConfig /\ snapshot # config /\ pipePc = "execute"

\* C9: at most one join is ever made; every call leaves the flag cleared and
\* the handle gone; a call that finds no handle joins nothing, does not wait
\* and changes neither flag nor handle.
C9_TerminateIdempotent ==
    [][/\ joins' <= 1
       /\ terminateCalls' > terminateCalls =>
             /\ ~keep_running' /\ ~join_handle'
             /\ join_handle => (joins' = joins + 1 /\ uiPc' \in {"joining", "drop_joining"})
             /\ ~join_handle =>
                   /\ UNCHANGED <<keep_running, join_handle, joins>>
                   /\ uiPc' \in {"idle", "dropped"}]_vars

\* C9 witness: terminate() was called explicitly and again by drop.
C9_Witness == terminateCalls = 2 /\ joins = 1 /\ uiPc = "dropped"

\* C10: whenever terminate() is waiting in join, the thread eventually leaves
\* its loop and the join returns.
C10_TerminateReturns ==
    (uiPc \in {"joining", "drop_joining"}) ~>
        (pipePc = "exited" /\ uiPc \in {"idle", "dropped"})

\* C10 witness: terminate() waits in join while the thread is inside
\* AcquireNextFrame.
C10_Witness == uiPc = "joining" /\ pipePc = "acquire"

\* The width and height Pipeline::process asks create_renderer for.
SnapshotSize == <<RectWidth(snapshot.window_rect), RectHeight(snapshot.window_rect)>>

\* C11: the flag is read only at the top of the loop.  A step that clears the
\* flag leaves the thread where it is; in mid-iteration the thread leaves the
\* loop only on an error; at the top of the loop with the flag cleared it can
\* only leave; and once a join has returned the thread is out and no step
\* adds a call, a capture, a command or a submission.
C11_CooperativeCancel ==
    [][/\ keep_running' # keep_running =>
             UNCHANGED <<pipePc, log, cmds, dupl, gpuQueue, fence_value, err>>
       /\ (pipePc \notin {"loop", "exited"} /\ pipePc' = "exited") => err' # err
       /\ (pipePc = "loop" /\ ~keep_running) => pipePc' \in {"loop", "exited"}
       /\ (joins = 1 /\ uiPc \in {"idle", "dropped"}) =>
             /\ pipePc = "exited" /\ pipePc' = "exited"
             /\ UNCHANGED <<log, cmds, dupl, lastDup, submitted, fence_value, swap>>]_vars

\* C11 witness: the flag was cleared while a frame was being presented and
\* the iteration went on to its fence wait.
C11_Witness == ~keep_running /\ uiPc = "joining" /\ pipePc = "fence_wait"

\* C12 as stated: a create_renderer call whose size equals the size asked for
\* by the previous frame leaves buffers and depth target as they are.
C12_ResizeNoOp ==
    [][(/\ pipePc = "create_renderer" /\ pipePc' # "create_renderer"
        /\ frameNo >= 1
        /\ SnapshotSize = swap.requested) =>
             /\ swap'.generation = swap.generation
             /\ swap'.buffers = swap.buffers /\ swap'.depth = swap.depth]_vars

\* C13 as stated: while a renderer records, its colour and depth targets have
\* the size of the window in the iteration's snapshot.
C13_TargetsMatchWindow ==
    (cmdState = "open" /\ snapshot # NoConfig) =>
        (swap.buffers = SnapshotSize /\ swap.depth = SnapshotSize)

\* C14: a renderer is created only at the start of an iteration, from a
\* closed list, after every earlier renderer was closed and submitted; a
\* close closes the open list of the newest renderer, once; a submission
\* hands over a list that was just closed, once; the list changes state only
\* at the Reset of create_renderer and at close.
C14_RendererLifecycle ==
    [][/\ frameNo' # frameNo =>
             /\ frameNo' = frameNo + 1
             /\ cmdState = "closed" /\ cmdState' = "open"
             /\ closed = frameNo /\ submitted = frameNo
             /\ log = <<"lock", "clone", "duplicate">>
       /\ closed' # closed =>
             /\ closed' = closed + 1 /\ closed' = frameNo
             /\ cmdState = "open" /\ cmdState' = "closed"
       /\ submitted' # submitted =>
             /\ submitted' = submitted + 1 /\ submitted' = closed'
             /\ cmdState' = "closed"
       /\ cmdState' # cmdState =>
             \/ (cmdState' = "open" /\ frameNo' = frameNo + 1)
             \/ (cmdState' = "closed" /\ pipePc = "execute")]_vars

\* C14 witness: the second renderer has been closed and submitted.
C14_Witness == frameNo = 2 /\ closed = 2 /\ submitted = 2 /\ cmdState = "closed"

\* C15: no barrier on a back buffer is recorded from the wrong state (the
\* two transitions alternate); from the renderer's construction to its close
\* the target is in the render-target state and no other buffer is; when
\* present is called every buffer is presentable.
C15_BackBufferStates ==
    /\ \A i \in DOMAIN swap.states : swap.states[i] \in {"present", "render_target"}
    /\ pipePc \in {"set_shared_srv", "filter", "colorcloud", "grids", "histogram",
                   "execute"} =>
          \A i \in DOMAIN swap.states :
             swap.states[i] = IF i = target THEN "render_target" ELSE "present"
    /\ pipePc = "present" => \A i \in DOMAIN swap.states : swap.states[i] = "present"

\* C15 witness: the second frame, drawn to the second buffer, is about to be
\* presented.
C15_Witness == pipePc = "present" /\ frameNo = 2 /\ target = 1

\* C16: for every combination of enable flags and histogram mode, the
\* descriptors copied into the shader-visible heap while one frame is
\* recorded never exceed its capacity: the cursor starts again at the first
\* slot with every renderer, counts exactly the views the recorded commands
\* bind, and the "too many descriptors" failure never happens.
C16_DescriptorsFit ==
    /\ cursor <= ShaderVisibleDescriptors
    /\ err # "too many descriptors"
    /\ pipePc = "set_shared_srv" => cursor = 0
    /\ pipePc \in {"set_shared_srv", "filter", "colorcloud", "grids", "histogram",
                   "execute"} => cursor = Descriptors(cmds)
C16_Witness ==
    /\ pipePc = "execute"
    /\ snapshot.enable_color_cloud /\ snapshot.enable_histogram
    /\ cursor = ShaderVisibleDescriptors

\* The commands of a list that name a buffer, each as the step it is: the
\* two transitions, the clear, the two bindings, the dispatch and the draw.
StepOf(c) ==
    CASE c.op = "barrier" /\ c.before = "read" /\ c.after = "uav" -> "to_uav"
      [] c.op = "barrier" /\ c.before = "uav" /\ c.after = "read" -> "to_read"
      [] c.op \in {"dispatch.histogram", "dispatch.colorcloud"} -> "dispatch"
      [] OTHER -> c.op
RECURSIVE StepsOn(_, _)
StepsOn(cs, res) ==
    IF cs = <<>> THEN <<>>
    ELSE (IF res \in Head(cs).res THEN <<StepOf(Head(cs))>> ELSE <<>>)
         \o StepsOn(Tail(cs), res)
BufferOrder ==
    <<"to_uav", "clear_uav", "set_uavs", "dispatch", "to_read", "set_graphics_srvs",
      "draw">>
PassEnabled(res) ==
    IF res = "cloud" THEN snapshot.enable_color_cloud ELSE snapshot.enable_histogram

\* C17: for each aggregation buffer the commands recorded in a frame are, in
\* this order, the transition read -> unordered access, the clear, the
\* dispatch, the transition unordered access -> read and the draw (all of
\* them once the frame whose pass is enabled is recorded, none when it is
\* disabled); executing them, a clear or dispatch finds the buffer in the
\* unordered-access state and a draw finds it in the read state.
C17_BufferCommandOrder ==
    \A res \in AggBuffers :
        /\ IsPrefix(StepsOn(cmds, res), BufferOrder)
        /\ pipePc = "execute" /\ err = "none" =>
                StepsOn(cmds, res) = (IF PassEnabled(res) THEN BufferOrder ELSE <<>>)
        /\ Executing /\ res \in cmds[gpuPc + 1].res =>
                /\ cmds[gpuPc + 1].op \in {"clear_uav", "set_uavs", "dispatch.histogram",
                                           "dispatch.colorcloud"} => resState[res] = "uav"
                /\ cmds[gpuPc + 1].op \in {"set_graphics_srvs", "draw"} =>
                        resState[res] = "read"
C17_Witness ==
    /\ snapshot.enable_color_cloud /\ snapshot.enable_histogram
    /\ submitted = 2 /\ gpuPc = Len(cmds)
    /\ \A res \in AggBuffers : StepsOn(cmds, res) = BufferOrder /\ resState[res] = "read"

IsZero(res) == \A cell \in Cells(res) : mem[res][cell] = 0
Cleared(res) ==
    \E i \in 1..gpuPc : cmds[i].op = "clear_uav" /\ res \in cmds[i].res
Dispatched(res) ==
    \E i \in 1..gpuPc :
        /\ cmds[i].op \in {"dispatch.histogram", "dispatch.colorcloud"}
        /\ res \in cmds[i].res

\* C18: once the clear of a buffer has executed and until the dispatch of its
\* pass executes, every bin of each histogram buffer and every cell of the
\* colour-cloud counter is zero, whatever an earlier frame left in them; the
\* dispatch never starts on a buffer that holds a count.
C18_ClearedBeforeDispatch ==
    \A res \in AggBuffers :
        /\ gpuQueue # <<>> /\ Cleared(res) /\ ~Dispatched(res) => IsZero(res)
        /\ Executing /\ res \in cmds[gpuPc + 1].res
              /\ cmds[gpuPc + 1].op \in {"dispatch.histogram", "dispatch.colorcloud"}
              => IsZero(res)
C18_Witness ==
    /\ Executing
    /\ cmds[gpuPc + 1].op = "dispatch.histogram"
    /\ ~snapshot.enable_color_cloud
    /\ mem["cloud"] = DirtyMem["cloud"]
    /\ \A res \in HistBuffers : Cleared(res) /\ IsZero(res)

RECURSIVE SumBins(_, _)
SumBins(bins, upto) ==
    IF upto < 0 THEN 0 ELSE bins[upto] + SumBins(bins, upto - 1)
CapturedPixels == SnapshotSize[1] * SnapshotSize[2]

\* C19: once the histogram dispatch of a frame has executed, the bins of each
\* of the four channels sum to at most width * height of the capture
\* rectangle: a pixel is counted at most once in a channel, threads of the
\* rounded-up groups outside the rectangle count nothing, and nothing an
\* earlier frame counted is left.
C19_HistogramSumBounded ==
    \A res \in HistBuffers :
        Dispatched(res) => SumBins(mem[res], MaxLevel) <= CapturedPixels
C19_Witness ==
    /\ Dispatched("hist0")
    /\ SnapshotSize = <<ScreenW, ScreenH>>
    /\ snapshot.histogram_mode = HISTOGRAM_MODE_RGBL
    /\ \A res \in HistBuffers : SumBins(mem[res], MaxLevel) = ScreenW * ScreenH
    /\ mem["hist0"][0] > 0 /\ mem["hist0"][MaxLevel] > 0

RectPixels(r) == (r.left..(r.right - 1)) \X (r.top..(r.bottom - 1))
SingleColor(col) ==
    \A px \in RectPixels(snapshot.window_rect) : PixelAt(frame, px) = col

\* C20: when every pixel of the capture rectangle has one RGB value, then
\* once the colour-cloud dispatch of the frame has executed the cell indexed
\* by that value holds width * height and every other cell holds zero.
C20_SingleColorOneCell ==
    \A col \in Colors :
        SingleColor(col) /\ Dispatched("cloud") =>
            \A cell \in Colors :
                mem["cloud"][cell] = (IF cell = col THEN CapturedPixels ELSE 0)
C20_Witness ==
    /\ Dispatched("cloud")
    /\ SnapshotSize = <<ScreenW, ScreenH>>
    /\ SingleColor(<<MaxLevel, 0, MaxLevel>>)
    /\ mem["cloud"][<<MaxLevel, 0, MaxLevel>>] = ScreenW * ScreenH
    /\ mem["cloud"][<<0, 0, 0>>] = 0

\* The enable condition of each pass, and the resources only it works on.
PassOn(step) ==
    CASE step = "filter" -> snapshot.enable_filter
      [] step = "colorcloud" -> snapshot.enable_color_cloud
      [] step = "grids" -> snapshot.enable_color_cloud /\ snapshot.show_grid
      [] OTHER -> snapshot.enable_histogram
PassResources(step) ==
    CASE step = "colorcloud" -> {"cloud"}
      [] step = "grids" -> {"grid"}
      [] step = "histogram" -> HistBuffers
      [] OTHER -> {}
Passes == {"filter", "colorcloud", "grids", "histogram"}

\* C21: a pass whose enable condition is false does nothing in the frame: its
\* step records no command, takes no descriptor slot and issues no barrier,
\* no command of the frame names its resources, and the GPU leaves its
\* aggregation buffers and their states as they were; with only the filter
\* enabled no clear, dispatch or draw of the histogram or colour cloud is
\* recorded.
C21_DisabledPassNoOp ==
    [][\A step \in Passes :
          ~PassOn(step) =>
              /\ pipePc = step =>
                    cmds' = cmds /\ cursor' = cursor /\ swap' = swap /\ execVars' = execVars
              /\ \A i \in 1..Len(cmds') : cmds'[i].res \cap PassResources(step) = {}
              /\ \A res \in PassResources(step) \cap AggBuffers :
                    mem'[res] = mem[res] /\ resState'[res] = resState[res]]_vars
C21_Witness ==
    /\ snapshot.enable_filter
    /\ ~snapshot.enable_histogram /\ ~snapshot.enable_color_cloud
    /\ submitted = 2 /\ gpuPc = Len(cmds)
    /\ \E i \in 1..Len(cmds) : cmds[i].op = "draw" /\ cmds[i].res = {"capture"}
    /\ mem = DirtyMem

GridDrawn(cs) == \E i \in 1..Len(cs) : cs[i].op = "draw" /\ cs[i].res = {"grid"}

\* C22: the Grid pass draws in a frame if and only if the frame's snapshot
\* has both the colour-cloud enable flag and the show-grid flag set: leaving
\* the grid step, a grid draw is recorded exactly when both are set.
C22_GridDrawsIffFlags ==
    [][pipePc = "grids" =>
          (GridDrawn(cmds') <=> (snapshot.enable_color_cloud /\ snapshot.show_grid))]_vars

\* The calls of Context::execute in the log of the iteration.
ExecuteEvents == {"resolve_query", "close", "submit", "present", "signal", "wait", "dump"}
IsExecuteEvent(e) == e \in ExecuteEvents
ExecuteLog == SelectSeq(log, IsExecuteEvent)
ExecuteOrderBlocking ==
    <<"resolve_query", "close", "submit", "present", "signal", "wait", "dump">>
ExecuteOrderReady == <<"resolve_query", "close", "submit", "present", "signal", "dump">>

\* C23: the calls of one execute are made in the order resolve queries,
\* close, submit, present, fence signal and wait, and only then the readback
\* of the timestamps (the CPU blocks in the wait only when the GPU is behind);
\* present is never before the submission, and when execute goes on to the
\* readback the fence was signalled and has reached the signalled value.
C23_ExecuteOrder ==
    /\ IsPrefix(ExecuteLog, ExecuteOrderBlocking) \/ IsPrefix(ExecuteLog, ExecuteOrderReady)
    /\ Count(log, "present") > 0 => submitted = frameNo
    /\ pipePc = "readback" \/ Count(log, "dump") > 0 =>
          /\ Count(log, "signal") = 1 /\ Count(log, "present") = 1
          /\ completedValue >= fence_value - 1
C23_Witness ==
    /\ pipePc = "loop"
    /\ ExecuteLog = ExecuteOrderBlocking

SignalsQueued == {gpuQueue[i].value : i \in {j \in 1..Len(gpuQueue) : gpuQueue[j].op = "signal"}}

\* C24: each fence wait signals a value greater than every value signalled
\* before, one more than the wait before it and starting at 1 (the n-th
\* submission signals n); the thread blocks on the event only when the
\* completed value is below the value it has just signalled, and it leaves
\* the wait only when the completed value has reached that value.
C24_FenceWait ==
    [][/\ pipePc = "fence_signal" /\ pipePc' = "fence_check" =>
            /\ gpuQueue' = Append(gpuQueue, [op |-> "signal", value |-> fence_value])
            /\ fence_value = submitted
            /\ fence_value' = fence_value + 1
            /\ completedValue < fence_value
            /\ \A v \in SignalsQueued : v < fence_value
       /\ pipePc = "fence_check" /\ pipePc' = "fence_wait" =>
            completedValue < fence_value - 1
       /\ pipePc \in {"fence_check", "fence_wait"} /\ pipePc' = "readback" =>
            completedValue' >= fence_value' - 1]_vars
C24_Witness ==
    /\ pipePc = "readback"
    /\ fence_value = 3 /\ completedValue = 2
    /\ Count(log, "wait") = 1

ExecPending == \E i \in 1..Len(gpuQueue) : gpuQueue[i].op = "exec"

\* C25: when duplicate() is called, and while it releases the previous frame
\* and acquires the next, nothing submitted is pending on the GPU and every
\* signalled fence value has completed; work that is pending has its frame
\* still held by the capture source, and the source has dropped the frame it
\* held before it takes the next one.
C25_NoPendingAtDuplicate ==
    /\ pipePc \in {"duplicate", "acquire"} =>
          /\ ~ExecPending
          /\ gpuQueue = <<>>
          /\ completedValue = fence_value - 1
          /\ submitted = frameNo /\ fence_value = submitted + 1
    /\ pipePc = "acquire" => ~dupl.resource
    /\ ExecPending /\ pipePc # "exited" => dupl.resource /\ dupl.acquired
C25_Witness ==
    /\ pipePc = "duplicate"
    /\ submitted = 1 /\ fence_value = 2
    /\ dupl.resource

Min(a, b) == IF a <= b THEN a ELSE b
Recording ==
    pipePc \in {"set_shared_srv", "filter", "colorcloud", "grids", "histogram", "execute"}

\* C26: for a renderer on a target of width by height, the adjusted viewport
\* is a square whose side is the shorter of width and height, centred on the
\* target, and the full viewport spans width by height from the origin.
C26_AdjustedViewport ==
    Recording =>
        LET width == swap.buffers[1]
            height == swap.buffers[2]
        IN /\ viewports.full = [x2 |-> 0, y2 |-> 0, Width |-> width, Height |-> height]
           /\ viewports.adjust.Width = Min(width, height)
           /\ viewports.adjust.Height = Min(width, height)
           /\ viewports.adjust.x2 + viewports.adjust.Width = width
           /\ viewports.adjust.y2 + viewports.adjust.Height = height

IsEndQuery(c) == c.op = "end_query"
EndQueries(cs) == SelectSeq(cs, IsEndQuery)
IsResolve(c) == c.op = "resolve_query"

\* C27: timestamp(label) takes the query slots 0, 1, 2, ... in call order
\* while fewer timestamps than the heap has slots are recorded; a call beyond
\* that records nothing, changes nothing of the renderer and raises no
\* error, and the number of queries resolved never exceeds the heap's size.
C27_TimestampSlots ==
    [][/\ stampCalls' = stampCalls + 1 =>
            IF Len(labels) < QueryCount
               THEN /\ \E label \in Labels : labels' = Append(labels, label)
                    /\ cmds' = Append(cmds, EndQuery(Len(labels)))
               ELSE UNCHANGED <<labels, cmds, cursor, err, pipePc, log, queries, staging>>
       /\ Len(labels') <= QueryCount
       /\ \A i \in 1..Len(EndQueries(cmds')) : EndQueries(cmds')[i].x = i - 1
       /\ \A i \in 1..Len(cmds') :
             IsResolve(cmds'[i]) =>
                cmds'[i].x = Len(EndQueries(cmds')) /\ cmds'[i].x <= QueryCount]_vars
C27_Witness ==
    /\ stampCalls = QueryCount + MaxExtraCalls
    /\ Len(labels) = QueryCount
    /\ submitted = 2 /\ gpuPc = Len(cmds)
    /\ err = "none"

\* The slots (from 0) a label was recorded in, and the n-th smallest of a set.
SlotsOf(label) == {i \in Slots : i < Len(labels) /\ labels[i + 1] = label}
Least(S) == CHOOSE i \in S : \A j \in S : i <= j
ReportsOf(label) == {i \in 1..Len(reports) : reports[i].label = label}

\* C28: in what dump reports, the first occurrence of a label is the start
\* and the second the stop: a label recorded at least twice has exactly one
\* line, its value the tick of the second occurrence minus that of the
\* first, and a third or later occurrence adds no line.
C28_OneReportPerLabel ==
    Count(log, "dump") > 0 =>
        \A label \in Labels :
            /\ Cardinality(ReportsOf(label)) <= 1
            /\ \A i \in ReportsOf(label) :
                  LET first == Least(SlotsOf(label))
                      second == Least(SlotsOf(label) \ {first})
                  IN /\ reports[i].slot = second
                     /\ reports[i].dt = staging[second] - staging[first]

\* The staging buffer holds, for every label of the frame, the tick the GPU
\* wrote for it.
StagingResolved ==
    \A i \in Slots : i < Len(labels) => staging[i] = queries[i] /\ staging[i] > 0

\* C29: the staging buffer is read (dump runs) only once the fence has reached
\* the value signalled after the frame's submission and the GPU has executed
\* the whole list, and only for a frame that recorded labels and whose
\* execute has not failed; otherwise nothing is read and nothing reported.
C29_ReadbackAfterFence ==
    [][/\ Count(log', "dump") > Count(log, "dump") =>
            /\ labels # <<>>
            /\ err = "none"
            /\ pipePc = "readback"
            /\ completedValue >= fence_value - 1
            /\ submitted = closed /\ gpuPc = Len(cmds)
            /\ StagingResolved
       /\ reports' # reports => Count(log', "dump") > Count(log, "dump")]_vars
C29_Witness ==
    /\ Count(log, "dump") > 0 /\ Count(log, "wait") > 0
    /\ reports # <<>> /\ err = "none"

\* The channel count the claim names for a mode.
ActiveChannels(mode) ==
    CASE mode = HISTOGRAM_MODE_RGB -> 3
      [] mode = HISTOGRAM_MODE_RGBL -> 4
      [] OTHER -> 1
HistogramDispatches == {i \in 1..Len(cmds) : cmds[i].op = "dispatch.histogram"}
HistogramDraws == {i \in 1..Len(cmds) : cmds[i].op = "draw" /\ cmds[i].res = HistBuffers}

\* C30: the ch of the compute parameters and the instance count of the draw
\* of a frame's histogram are the same number: 3 in RGB mode, 4 in RGBL mode
\* and 1 in every other mode; a frame whose histogram pass ran has one of
\* each.
C30_HistogramChannels ==
    /\ \A i \in HistogramDispatches :
          cmds[i].params.ch = ActiveChannels(snapshot.histogram_mode)
    /\ \A i \in HistogramDraws : cmds[i].y = ActiveChannels(snapshot.histogram_mode)
    /\ Cardinality(HistogramDispatches) = Cardinality(HistogramDraws)
    /\ (PassOn("histogram") /\ pipePc = "execute" /\ err = "none") =>
            Cardinality(HistogramDraws) = 1
C30_Witness ==
    /\ snapshot.histogram_mode = HISTOGRAM_MODE_HUE + 1
    /\ \E i \in HistogramDispatches, j \in HistogramDraws :
          cmds[i].params.ch = 1 /\ cmds[j].y = 1
    /\ submitted = 2 /\ gpuPc = Len(cmds) /\ err = "none"

\* `groups` groups of `side` pixels cover `length` pixels and overhang them
\* by less than one group.
CoversTightly(groups, side, length) ==
    /\ groups * side >= length
    /\ groups * side - length < side
DispatchesOf(pass) == {i \in 1..Len(cmds) : cmds[i].op = pass}

\* C31: for a capture rectangle of positive width and height, the histogram
\* is dispatched with groups of 16 by 16 pixels and the color cloud with
\* groups of 8 by 8 pixels that cover every pixel of the rectangle and
\* overhang it by less than one group in each direction.
C31_DispatchCovers ==
    (RectWidth(snapshot.window_rect) > 0 /\ RectHeight(snapshot.window_rect) > 0) =>
        /\ \A i \in DispatchesOf("dispatch.histogram") :
              /\ CoversTightly(cmds[i].x, 16, RectWidth(snapshot.window_rect))
              /\ CoversTightly(cmds[i].y, 16, RectHeight(snapshot.window_rect))
        /\ \A i \in DispatchesOf("dispatch.colorcloud") :
              /\ CoversTightly(cmds[i].x, 8, RectWidth(snapshot.window_rect))
              /\ CoversTightly(cmds[i].y, 8, RectHeight(snapshot.window_rect))
C31_Witness ==
    /\ RectWidth(snapshot.window_rect) = 17 /\ RectHeight(snapshot.window_rect) = 16
    /\ \E i \in DispatchesOf("dispatch.histogram") : cmds[i].x = 2 /\ cmds[i].y = 1
    /\ \E i \in DispatchesOf("dispatch.colorcloud") : cmds[i].x = 3 /\ cmds[i].y = 2

CloudDraws == {i \in 1..Len(cmds) : cmds[i].op = "draw" /\ cmds[i].res = {"cloud"}}
GridDraws == {i \in 1..Len(cmds) : cmds[i].op = "draw" /\ cmds[i].res = {"grid"}}

\* C32: in a frame that records both the color cloud's draw and the grid's
\* draw, the two carry the same projection constant, whatever the UI thread
\* writes to the configuration meanwhile.
C32_SameProjection ==
    \A i \in CloudDraws, j \in GridDraws : cmds[i].proj = cmds[j].proj
C32_Witness ==
    /\ CloudDraws # {} /\ GridDraws # {}
    /\ pipePc = "histogram"
    /\ \/ config.rotation # snapshot.rotation
       \/ config.window_rect # snapshot.window_rect

\* C33: reporting a frame that recorded between one label and as many as
\* the heap holds ends without a failed label lookup: dump handles the
\* recorded slots only.
C33_DumpCompletes ==
    (Count(log, "dump") > 0 /\ Len(labels) \in 1..QueryCount) =>
        /\ err # "index out of bounds"
        /\ \A i \in 1..Len(reports) : reports[i].slot < Len(labels)

\* C34: every transition barrier on an aggregation buffer names as its
\* before-state the state the buffer is in when the barrier executes: the
\* state it was created in or the after-state of the last barrier on it.
C34_BarrierBeforeState ==
    (Executing /\ cmds[gpuPc + 1].op = "barrier") =>
        \A res \in cmds[gpuPc + 1].res \cap AggBuffers :
            resState[res] = cmds[gpuPc + 1].before

\* C35: whatever configuration the thread was given, the mode the grid
\* pass selects its grid by is the index of one of the grids it built, and
\* the pass never fails on it.
C35_GridIndexInRange ==
    /\ (pipePc = "grids" /\ GridsShown(snapshot)) =>
            snapshot.color_cloud_mode \in 0..(NumGrids - 1)
    /\ err # "index out of bounds"

\* C36: for a window rectangle of positive width and height the normalizer
\* of the color cloud's draw is at least 1 and its inverse is finite.
C36_MaxCountPositive ==
    (RectWidth(snapshot.window_rect) > 0 /\ RectHeight(snapshot.window_rect) > 0) =>
        \A i \in CloudDraws :
            cmds[i].max_count >= 1 /\ cmds[i].inv_max_count.finite

\* C37: a call of duplicate() whose release step answers 'invalid call'
\* (nothing was acquired: the first call, a call after a timeout) or
\* succeeds goes on to the acquisition without an error; only another
\* failure of the release ends the call.
C37_ReleaseInvalidCallIgnored ==
    [][(pipePc = "duplicate" /\ pipePc' # "duplicate") =>
          /\ lastDup'.release \in {"ok", "invalid_call"} =>
                pipePc' = "acquire" /\ err' = err /\ err = "none"
          /\ lastDup'.release = "ok" <=> (dupl.acquired /\ pipePc' = "acquire")
          /\ pipePc' # "acquire" => lastDup'.release = "error"]_vars
\* A call after a frame was processed and a later call timed out: nothing
\* is held, the release answers 'invalid call' and the acquisition is entered.
C37_Witness ==
    /\ frameNo >= 1
    /\ ~dupl.acquired /\ lastDup.release = "invalid_call"
    /\ pipePc = "acquire" /\ err = "none"

\* C38: the UI thread does not hold the configuration lock while it waits
\* in join (the guard taken for the save is gone before the visualizer is
\* dropped), and the pipeline thread holds the lock at no position where it
\* waits: not for the lock itself, not in AcquireNextFrame, not on the fence.
C38_NoLockWhileJoining ==
    /\ uiPc \in {"destroyed", "joining", "drop_joining", "dropped"} => lockHolder # "ui"
    /\ pipePc \in {"lock", "acquire", "sleep", "fence_wait"} => lockHolder # "pipe"
\* C38 witness: the window is closed while the thread waits for a frame; the
\* save has taken and released the lock and the drop waits in join.
C38_Witness ==
    /\ uiPc = "drop_joining" /\ lockHolder = "none" /\ terminateCalls = 1
    /\ pipePc = "lock"

\* C39: once the configuration lock is poisoned the thread takes no new
\* snapshot, so it starts no frame from the value the panicking handler
\* left; it leaves its loop at its next attempt to lock; and a drop that
\* waits in join then returns.
C39_PoisonedLockExits ==
    /\ [][lockHolder = "poisoned" =>
              /\ snapshot' \in {snapshot, NoConfig}
              /\ pipePc = "lock" => pipePc' \in {"lock", "exited"}]_vars
    /\ (lockHolder = "poisoned") ~> (pipePc = "exited" /\ uiPc # "drop_joining")
\* C39 witness: a handler panicked half-way through storing a rectangle, the
\* thread left at the lock without an error and the drop's join returned.
C39_Witness ==
    /\ lockHolder = "poisoned" /\ config # stable
    /\ pipePc = "exited" /\ err = "none"
    /\ uiPc = "dropped" /\ joins = 1
    /\ Count(log, "lock") = 1 /\ Count(log, "clone") = 0



\* C40: while the pipeline is built, the persistent views handed out never
\* exceed the capacity of the non-shader-visible heap and each has a slot of
\* its own inside the heap; the "descriptor size limit" panic does not
\* happen, and a built pipeline holds the capture view and the three views
\* of each aggregation buffer.
C40_PoolWithinCapacity ==
    /\ pool.cur <= NonShaderVisibleDescriptors
    /\ Len(pool.views) = pool.cur
    /\ \A i \in 1..Len(pool.views) :
          /\ pool.views[i].slot \in 0..(NonShaderVisibleDescriptors - 1)
          /\ \A j \in 1..Len(pool.views) :
                i # j => /\ pool.views[i].slot # pool.views[j].slot
                         /\ <<pool.views[i].res, pool.views[i].view>>
                                # <<pool.views[j].res, pool.views[j].view>>
    /\ ~pool.panicked
    /\ err # "descriptor size limit"
    /\ pipePc \notin {"new", "failed"} =>
          {<<v.res, v.view>> : v \in {pool.views[i] : i \in 1..Len(pool.views)}}
              = {<<"capture", "srv">>} \cup (AggBuffers \X {"srv", "uav", "raw_uav"})
C40_Witness ==
    /\ pool.stage > Len(Stages)
    /\ pool.cur = 1 + 3 * Cardinality(AggBuffers)
    /\ pipePc = "present" /\ err = "none"

====
